---------------------------- MODULE Spec2Model ----------------------------
(***************************************************************************)
(* A model of excalidraw-mcp's alert engine (monitoring/alerts.py), of the *)
(* canvas-server supervisor (server.py) and of the command line's stop     *)
(* path (cli.py).                                                          *)
(*                                                                         *)
(* Python values are modelled as follows.  A dict is a TLA+ function whose *)
(* DOMAIN is the dict's key set.  An Optional value is <<>> (None) or      *)
(* <<v>>.  Alert objects live in the sequence `alerts` (the heap, in       *)
(* creation order); the active index and the history hold references      *)
(* (indexes) to them, as the Python containers hold references to the      *)
(* same Alert objects.  Time is counted in ticks, TicksPerSec to a second, *)
(* so that int(timestamp) is not the identity.                             *)
(***************************************************************************)
EXTENDS Integers, Sequences, FiniteSets, TLC

VARIABLES
    \* ---- AlertManager (alerts.py) ----
    rules,            \* self._alert_rules: the registry, a sequence of rules
    active,           \* self._active_alerts: rule name -> alert reference
    history,          \* self._alert_history: sequence of alert references
    counts,           \* self._alert_counts: rule name -> number of triggers
    lastSent,         \* self._last_sent: rule name -> timestamp
    alerts,           \* every Alert object created so far
    dispatchLog,      \* one entry per call of _send_alert
    alertingEnabled,  \* config.monitoring.alerting_enabled
    now,              \* the clock read by time.time(), in ticks
    clockSteps,       \* how often the clock has advanced
    last,             \* the last operation, and the rules a cycle evaluated true
    \* ---- which program the process runs: server.py or the command line ----
    program,
    \* ---- canvas-server supervisor (server.py) ----
    osName,              \* os.name
    autoStart,           \* CANVAS_AUTO_START
    canvas_process,      \* the module global: None or the Popen of a pid
    canvas_process_pid,  \* the module global: None or a pid
    procs,               \* the processes spawned so far, pid -> status
    signals,             \* the signals sent without error, in order
    ensure,              \* caller -> where its ensure_canvas_server_running is
    supLast,             \* the supervisor's last step
    \* ---- cli.py, stop path ----
    cliProc,             \* the process a psutil.Process object refers to
    cliLast,             \* the last call of _stop_process and what it did
    \* ---- cli.py, serve path ----
    serve,               \* where _serve_http and its shutdown are
    \* ---- the canvas server's /health endpoint, as the probe finds it ----
    endpoint,
    \* ---- the notification channels whose sender raises at present ----
    down,
    \* ---- server.py, the tool operations ----
    syncEnabled,         \* ENABLE_CANVAS_SYNC
    toolOps,             \* caller -> where its tool operation is
    request,             \* the last request sent to the canvas server
    \* ---- export_service.py ----
    export,              \* the ExportService singleton and its callers
    \* ---- coroutines that run on the AlertManager concurrently ----
    lock,                \* self._lock: None, or the task that holds it
    tasks,               \* task -> where its coroutine is, and its locals
    access,              \* the last access to the alert/throttle maps
    waiters              \* the tasks that wait for self._lock, in order

alertVars == <<rules, active, history, counts, lastSent, alerts, dispatchLog,
               alertingEnabled, now, clockSteps, last>>

supVars == <<osName, autoStart, canvas_process, canvas_process_pid, procs,
             signals, ensure, supLast>>

cliVars == <<cliProc, cliLast, serve>>

envVars == <<endpoint, down>>

svcVars == <<syncEnabled, toolOps, request, export>>

taskVars == <<lock, tasks, access, waiters>>

vars == <<alertVars, program, supVars, cliVars, envVars, svcVars, taskVars>>

-----------------------------------------------------------------------------
(* Bounds of the model.                                                    *)

TicksPerSec == 2
MaxAlerts == 2
MaxClockSteps == 2
MaxDisabled == 1
MaxStarts == 2

-----------------------------------------------------------------------------
(* Python helpers.                                                         *)

None == <<>>
Some(v) == <<v>>

DictGet(d, k, default) == IF k \in DOMAIN d THEN d[k] ELSE default
DictSet(d, k, v) == [x \in DOMAIN d \cup {k} |-> IF x = k THEN v ELSE d[x]]
DictDel(d, k) == [x \in DOMAIN d \ {k} |-> d[x]]
EmptyDict == [x \in {} |-> 0]

Num(n) == <<"num", n>>
Str(s) == <<"str", s>>

\* int(timestamp): truncation of a float number of seconds
IntSec(t) == t \div TicksPerSec
Seconds(s) == s * TicksPerSec

-----------------------------------------------------------------------------
(* Enumerations (alerts.py, AlertLevel and AlertChannel).                  *)

AlertLevel == {"info", "warning", "error", "critical"}
AlertChannel == {"log", "webhook", "email", "slack"}

-----------------------------------------------------------------------------
(* Rule conditions.  The code hands the condition string to Python's eval  *)
(* with the builtins removed and the context below as its local names.     *)
(* A condition is modelled by its syntax tree; Malformed is a string that  *)
(* does not parse.                                                         *)

Field(f) == <<"field", f>>
Lit(v) == <<"lit", v>>
Cmp(op, a, b) == <<"cmp", op, a, b>>
And(a, b) == <<"and", a, b>>
Or(a, b) == <<"or", a, b>>
Not(a) == <<"not", a>>
Malformed == <<"malformed">>
\* an attribute of a name or literal (x.attr), a call of one of its methods
\* without arguments (x.method()), and an assignment statement (name = e)
Attr(a, attr) == <<"attr", a, attr>>
MethodCall(a, method) == <<"call", a, method>>
Assign(name, e) == <<"assign", name, e>>

Ok(v) == <<"ok", v>>
Raise(kind) == <<"raise", kind>>
IsOk(r) == r[1] = "ok"

\* config.monitoring.cpu_threshold_percent and memory_threshold_percent
CpuThreshold == 80
MemoryThreshold == 85

\* mutant: a snapshot without process_status is read as one of a dead
\* process
EvalContext_DeadByDefault(metrics) ==
    [consecutive_health_failures |->
         DictGet(metrics, "consecutive_health_failures", Num(0)),
     circuit_state |-> DictGet(metrics, "circuit_state", Str("closed")),
     cpu_percent |-> DictGet(metrics, "cpu_percent", Num(0)),
     memory_percent |-> DictGet(metrics, "memory_percent", Num(0)),
     cpu_threshold |-> Num(CpuThreshold),
     memory_threshold |-> Num(MemoryThreshold),
     process_status |-> DictGet(metrics, "process_status", Str("dead"))]

\* the `context` dict of _evaluate_condition: metrics.get(name, default)
EvalContext(metrics) ==
    [consecutive_health_failures |->
         DictGet(metrics, "consecutive_health_failures", Num(0)),
     health_response_time |-> DictGet(metrics, "health_response_time", Num(0)),
     circuit_state |-> DictGet(metrics, "circuit_state", Str("closed")),
     circuit_failure_rate |-> DictGet(metrics, "circuit_failure_rate", Num(0)),
     circuit_failures |-> DictGet(metrics, "circuit_failures", Num(0)),
     cpu_percent |-> DictGet(metrics, "cpu_percent", Num(0)),
     memory_percent |-> DictGet(metrics, "memory_percent", Num(0)),
     cpu_threshold |-> Num(CpuThreshold),
     memory_threshold |-> Num(MemoryThreshold),
     process_status |-> DictGet(metrics, "process_status", Str("unknown")),
     uptime_seconds |-> DictGet(metrics, "uptime_seconds", Num(0)),
     error_rate |-> DictGet(metrics, "error_rate", Num(0)),
     avg_response_time |-> DictGet(metrics, "avg_response_time", Num(0))]

\* Python's comparison of two values: numbers compare by value, strings by
\* equality, and ordering a string against a number raises TypeError.
\* (Ordering two strings is not modelled: no condition of the model does.)
Compare(op, x, y) ==
    IF x[1] = "num" /\ y[1] = "num"
    THEN Ok(CASE op = ">=" -> x[2] >= y[2]
              [] op = ">"  -> x[2] > y[2]
              [] op = "<=" -> x[2] <= y[2]
              [] op = "<"  -> x[2] < y[2]
              [] op = "==" -> x[2] = y[2]
              [] op = "!=" -> x[2] # y[2])
    ELSE IF x[1] = "str" /\ y[1] = "str"
    THEN CASE op = "==" -> Ok(x[2] = y[2])
           [] op = "!=" -> Ok(x[2] # y[2])
    ELSE CASE op = "==" -> Ok(FALSE)
           [] op = "!=" -> Ok(TRUE)
           [] OTHER -> Raise("TypeError")

\* bool(value); an object without __bool__ and __len__ is true
Truth(v) ==
    IF v[1] = "num" THEN v[2] # 0
    ELSE IF v[1] = "str" THEN v[2] # ""
    ELSE TRUE

\* str.upper() on the strings of the model
UpperOf ==
    [closed |-> "CLOSED", open |-> "OPEN", running |-> "RUNNING",
     dead |-> "DEAD", unknown |-> "UNKNOWN"]
Upper(s) == IF s \in DOMAIN UpperOf THEN UpperOf[s] ELSE s

\* the value of a name or a literal: an unknown name raises NameError
NameValue(a, ctx) ==
    IF a[1] = "lit" THEN Ok(a[2])
    ELSE IF a[2] \in DOMAIN ctx THEN Ok(ctx[a[2]]) ELSE Raise("NameError")

\* mutant: an attribute access or a call is rejected
AtomValue_NamesOnly(a, ctx) ==
    IF a[1] \in {"attr", "call"} THEN Raise("SyntaxError")
    ELSE NameValue(a, ctx)

\* the value of an operand.  eval has no restriction on the expression:
\* the attribute x.__class__ is the class object of x's value, and the
\* method x.upper() of a string is called and returns its value; an
\* attribute the value does not have raises AttributeError.
AtomValue(a, ctx) ==
    IF a[1] \in {"attr", "call"}
    THEN LET x == NameValue(a[2], ctx)
         IN  IF ~IsOk(x) THEN x
             ELSE IF a[1] = "attr" /\ a[3] = "__class__"
             THEN Ok(<<"obj", x[2][1]>>)
             ELSE IF a[1] = "call" /\ a[3] = "upper" /\ x[2][1] = "str"
             THEN Ok(Str(Upper(x[2][2])))
             ELSE Raise("AttributeError")
    ELSE NameValue(a, ctx)

\* eval(condition, {"__builtins__": {}}, context), then bool(result):
\* Ok(b) or Raise(kind).  Operands are evaluated left to right, and `and`
\* and `or` do not evaluate their right operand when the left decides.
RECURSIVE Eval(_, _)
Eval(e, ctx) ==
    CASE e[1] \in {"malformed", "assign"} -> Raise("SyntaxError")
      [] e[1] \in {"field", "lit", "attr", "call"} ->
            LET v == AtomValue(e, ctx)
            IN  IF IsOk(v) THEN Ok(Truth(v[2])) ELSE v
      [] e[1] = "cmp" ->
            LET x == AtomValue(e[3], ctx)
            IN  IF ~IsOk(x) THEN x
                ELSE LET y == AtomValue(e[4], ctx)
                     IN  IF ~IsOk(y) THEN y ELSE Compare(e[2], x[2], y[2])
      [] e[1] = "and" ->
            LET l == Eval(e[2], ctx)
            IN  IF ~IsOk(l) THEN l
                ELSE IF ~l[2] THEN l ELSE Eval(e[3], ctx)
      [] e[1] = "or" ->
            LET l == Eval(e[2], ctx)
            IN  IF ~IsOk(l) THEN l
                ELSE IF l[2] THEN l ELSE Eval(e[3], ctx)
      [] e[1] = "not" ->
            LET l == Eval(e[2], ctx)
            IN  IF ~IsOk(l) THEN l ELSE Ok(~l[2])

\* mutant: a condition whose evaluation raises is read as True
EvaluateCondition_RaiseIsTrue(condition, metrics) ==
    LET r == Eval(condition, EvalContext(metrics))
    IN  IF IsOk(r) THEN r[2] ELSE TRUE

\* _evaluate_condition: any exception is caught, logged and read as False
EvaluateCondition(condition, metrics) ==
    LET r == Eval(condition, EvalContext(metrics))
    IN  IF IsOk(r) THEN r[2] ELSE FALSE

-----------------------------------------------------------------------------
(* The rule registry (_initialize_alert_rules).                            *)

AlertRule(name, condition, level, throttle) ==
    [name |-> name, condition |-> condition, level |-> level,
     message_template |-> <<>>,
     channels |-> <<"log">>, throttle_seconds |-> throttle, enabled |-> TRUE]

\* a rule with a message template; of the template the model keeps the
\* names of its placeholders, in order
WithTemplate(rule, placeholders) ==
    [rule EXCEPT !.message_template = placeholders]

InitializeAlertRules ==
    << WithTemplate(
           AlertRule("health_check_failing",
                     Cmp(">=", Field("consecutive_health_failures"),
                         Lit(Num(3))),
                     "warning", 300),
           <<"consecutive_failures">>),
       WithTemplate(
           AlertRule("health_check_critical",
                     Cmp(">=", Field("consecutive_health_failures"),
                         Lit(Num(5))),
                     "critical", 180),
           <<"consecutive_failures">>),
       WithTemplate(
           AlertRule("circuit_breaker_opened",
                     Cmp("==", Field("circuit_state"), Lit(Str("open"))),
                     "error", 600),
           <<"failure_rate">>),
       WithTemplate(
           AlertRule("high_cpu_usage",
                     Cmp(">", Field("cpu_percent"), Field("cpu_threshold")),
                     "warning", 300),
           <<"cpu_percent", "cpu_threshold">>),
       WithTemplate(
           AlertRule("high_memory_usage",
                     Cmp(">", Field("memory_percent"),
                         Field("memory_threshold")),
                     "warning", 300),
           <<"memory_percent", "memory_threshold">>),
       AlertRule("canvas_process_died",
                 Cmp("==", Field("process_status"), Lit(Str("dead"))),
                 "critical", 60) >>

RuleNames == {InitializeAlertRules[i].name : i \in DOMAIN InitializeAlertRules}

-----------------------------------------------------------------------------
(* The alert state the trigger and resolve paths work on, as one record:   *)
(* [active, history, counts, lastSent, alerts, dispatchLog].               *)

AlertState ==
    [active |-> active, history |-> history, counts |-> counts,
     lastSent |-> lastSent, alerts |-> alerts, dispatchLog |-> dispatchLog]

\* next((r for r in self._alert_rules if r.name == rule_name), {})
FindRule(ruleSeq, rule_name) ==
    LET hits == {i \in DOMAIN ruleSeq : ruleSeq[i].name = rule_name}
    IN  IF hits = {} THEN None
        ELSE Some(ruleSeq[CHOOSE i \in hits : \A j \in hits : i <= j])

\* mutant: the comparison with the throttle window inverted
ShouldThrottleAlert_Inverted(lastSentMap, ruleSeq, rule_name, timestamp) ==
    IF rule_name \notin DOMAIN lastSentMap THEN FALSE
    ELSE LET rule == FindRule(ruleSeq, rule_name)
         IN  IF rule = None THEN FALSE
             ELSE timestamp - lastSentMap[rule_name]
                      > Seconds(rule[1].throttle_seconds)

\* mutant: a rule is still throttled when exactly throttle_seconds passed
ShouldThrottleAlert_Inclusive(lastSentMap, ruleSeq, rule_name, timestamp) ==
    IF rule_name \notin DOMAIN lastSentMap THEN FALSE
    ELSE LET rule == FindRule(ruleSeq, rule_name)
         IN  IF rule = None THEN FALSE
             ELSE timestamp - lastSentMap[rule_name]
                      <= Seconds(rule[1].throttle_seconds)

\* _should_throttle_alert
ShouldThrottleAlert(lastSentMap, ruleSeq, rule_name, timestamp) ==
    IF rule_name \notin DOMAIN lastSentMap THEN FALSE
    ELSE LET rule == FindRule(ruleSeq, rule_name)
         IN  IF rule = None THEN FALSE
             ELSE timestamp - lastSentMap[rule_name]
                      < Seconds(rule[1].throttle_seconds)

\* the channels _send_alert has a sender for
Senders == {"log", "webhook"}

\* mutant: the loop over the channels ends at the first sender that raises
SendAlert_StopsAtFailure(ref, channels) ==
    LET firstDown == {i \in 1..Len(channels) :
                         channels[i] \in Senders /\ channels[i] \in down}
        upto == IF firstDown = {} THEN Len(channels)
                ELSE CHOOSE i \in firstDown : \A j \in firstDown : i <= j
        seen == SubSeq(channels, 1, upto)
    IN  [alert |-> ref, channels |-> channels,
         attempted |-> SelectSeq(seen, LAMBDA c : c \in Senders),
         delivered |-> SelectSeq(seen,
                                 LAMBDA c : c \in Senders /\ c \notin down),
         failed |-> SelectSeq(seen, LAMBDA c : c \in Senders /\ c \in down)]

\* _send_alert: one sender per channel; only the log and the webhook
\* channels have one, the loop passes over the others.  A sender that
\* raises is caught inside the loop and logged, and the loop goes on:
\* `attempted` are the channels whose sender was called, `failed` those
\* whose sender raised, `delivered` those whose sender returned.
SendAlert(ref, channels) ==
    [alert |-> ref, channels |-> channels,
     attempted |-> SelectSeq(channels, LAMBDA c : c \in Senders),
     delivered |-> SelectSeq(channels,
                             LAMBDA c : c \in Senders /\ c \notin down),
     failed |-> SelectSeq(channels, LAMBDA c : c \in Senders /\ c \in down)]

\* the names _format_alert_message offers to a template
FormatContext ==
    {"consecutive_failures", "cpu_percent", "memory_percent", "cpu_threshold",
     "memory_threshold", "failure_rate", "uptime"}

\* _format_alert_message: template.format(**context) raises KeyError for a
\* placeholder that is not in the context, and the except branch returns
\* the template as it is.  The formatted text itself is left out: a
\* message is the template and whether it was formatted or returned raw.
FormatAlertMessage(template) ==
    IF \A i \in DOMAIN template : template[i] \in FormatContext
    THEN <<"formatted", template>>
    ELSE <<"raw", template>>

\* The Alert a rule creates (_trigger_alert, "Create alert").  The title
\* is text only and is left out.
RuleAlert(rule, timestamp) ==
    [id |-> <<rule.name, IntSec(timestamp)>>,
     message |-> FormatAlertMessage(rule.message_template),
     level |-> rule.level,
     timestamp |-> timestamp,
     source |-> "canvas_monitoring",
     labels |-> [rule |-> rule.name],
     resolved |-> FALSE,
     resolved_at |-> None]

\* mutant: an alert already active for the rule is kept, the new one is
\* only appended to the history
TriggerAlert_KeepOld(st, ruleSeq, rule, timestamp) ==
    IF ShouldThrottleAlert(st.lastSent, ruleSeq, rule.name, timestamp)
    THEN st
    ELSE LET ref == Len(st.alerts) + 1
         IN  [active |-> IF rule.name \in DOMAIN st.active THEN st.active
                         ELSE DictSet(st.active, rule.name, ref),
              history |-> Append(st.history, ref),
              counts |-> DictSet(st.counts, rule.name,
                                 DictGet(st.counts, rule.name, 0) + 1),
              lastSent |-> DictSet(st.lastSent, rule.name, timestamp),
              alerts |-> Append(st.alerts, RuleAlert(rule, timestamp)),
              dispatchLog |-> Append(st.dispatchLog,
                                     SendAlert(ref, rule.channels))]

\* mutant: an alert that is replaced in the active index is marked resolved
TriggerAlert_ResolvesPrevious(st, ruleSeq, rule, timestamp) ==
    IF ShouldThrottleAlert(st.lastSent, ruleSeq, rule.name, timestamp)
    THEN st
    ELSE LET ref == Len(st.alerts) + 1
             closed == IF rule.name \in DOMAIN st.active
                       THEN [st.alerts EXCEPT
                                ![st.active[rule.name]].resolved = TRUE,
                                ![st.active[rule.name]].resolved_at =
                                    Some(timestamp)]
                       ELSE st.alerts
         IN  [active |-> DictSet(st.active, rule.name, ref),
              history |-> Append(st.history, ref),
              counts |-> DictSet(st.counts, rule.name,
                                 DictGet(st.counts, rule.name, 0) + 1),
              lastSent |-> DictSet(st.lastSent, rule.name, timestamp),
              alerts |-> Append(closed, RuleAlert(rule, timestamp)),
              dispatchLog |-> Append(st.dispatchLog,
                                     SendAlert(ref, rule.channels))]

\* _trigger_alert, under the lock
TriggerAlert(st, ruleSeq, rule, timestamp) ==
    IF ShouldThrottleAlert(st.lastSent, ruleSeq, rule.name, timestamp)
    THEN st
    ELSE LET ref == Len(st.alerts) + 1
         IN  [active |-> DictSet(st.active, rule.name, ref),
              history |-> Append(st.history, ref),
              counts |-> DictSet(st.counts, rule.name,
                                 DictGet(st.counts, rule.name, 0) + 1),
              lastSent |-> DictSet(st.lastSent, rule.name, timestamp),
              alerts |-> Append(st.alerts, RuleAlert(rule, timestamp)),
              dispatchLog |-> Append(st.dispatchLog,
                                     SendAlert(ref, rule.channels))]

\* mutant: the resolved alert is not removed from the active index
ResolveAlert_KeepActive(st, rule_name, timestamp) ==
    IF rule_name \in DOMAIN st.active
    THEN LET ref == st.active[rule_name]
         IN  [st EXCEPT !.alerts[ref].resolved = TRUE,
                        !.alerts[ref].resolved_at = Some(timestamp)]
    ELSE st

\* mutant: the resolution time is taken from the alert, not from the cycle
ResolveAlert_TriggerTime(st, rule_name, timestamp) ==
    IF rule_name \in DOMAIN st.active
    THEN LET ref == st.active[rule_name]
         IN  [st EXCEPT !.alerts[ref].resolved = TRUE,
                        !.alerts[ref].resolved_at =
                            Some(st.alerts[ref].timestamp),
                        !.active = DictDel(st.active, rule_name)]
    ELSE st

\* mutant: resolving an alert also forgets when the rule was last sent
ResolveAlert_ForgetsLastSent(st, rule_name, timestamp) ==
    IF rule_name \in DOMAIN st.active
    THEN LET ref == st.active[rule_name]
         IN  [st EXCEPT !.alerts[ref].resolved = TRUE,
                        !.alerts[ref].resolved_at = Some(timestamp),
                        !.active = DictDel(st.active, rule_name),
                        !.lastSent = DictDel(st.lastSent, rule_name)]
    ELSE st

\* _resolve_alert, under the lock
ResolveAlert(st, rule_name, timestamp) ==
    IF rule_name \in DOMAIN st.active
    THEN LET ref == st.active[rule_name]
         IN  [st EXCEPT !.alerts[ref].resolved = TRUE,
                        !.alerts[ref].resolved_at = Some(timestamp),
                        !.active = DictDel(st.active, rule_name)]
    ELSE st

\* a throttle_seconds that is no number (None, or a string taken from a
\* configuration file); AlertRule does not validate its fields.  The
\* model writes it as -1
NotANumber == -1

\* _should_throttle_alert raises: `time_since_last < rule.throttle_seconds`
\* is a TypeError when the throttle is no number.  The comparison is
\* reached when the rule has a lastSent entry and is found in the registry
ThrottleCheckRaises(lastSentMap, ruleSeq, rule_name) ==
    /\ rule_name \in DOMAIN lastSentMap
    /\ FindRule(ruleSeq, rule_name) # None
    /\ FindRule(ruleSeq, rule_name)[1].throttle_seconds = NotANumber

\* the loop's body raises for the rule: its condition is true and the
\* throttle check of _trigger_alert raises
RuleRaises(st, ruleSeq, rule, metrics) ==
    /\ rule.enabled
    /\ EvaluateCondition(rule.condition, metrics)
    /\ ThrottleCheckRaises(st.lastSent, ruleSeq, rule.name)

\* mutant: the loop does not look at the rule's enabled flag
CheckRule_SkipsFlag(st, ruleSeq, rule, metrics, timestamp) ==
    IF EvaluateCondition(rule.condition, metrics)
    THEN IF ThrottleCheckRaises(st.lastSent, ruleSeq, rule.name)
         THEN st
         ELSE TriggerAlert(st, ruleSeq, rule, timestamp)
    ELSE ResolveAlert(st, rule.name, timestamp)

\* the body of check_conditions' loop for one rule; the except branch
\* logs what _trigger_alert raises and the loop goes on
CheckRule(st, ruleSeq, rule, metrics, timestamp) ==
    IF ~rule.enabled THEN st
    ELSE IF EvaluateCondition(rule.condition, metrics)
         THEN IF ThrottleCheckRaises(st.lastSent, ruleSeq, rule.name)
              THEN st
              ELSE TriggerAlert(st, ruleSeq, rule, timestamp)
         ELSE ResolveAlert(st, rule.name, timestamp)

\* mutant: the try encloses the loop, so the first rule that raises ends
\* the cycle
RECURSIVE RunRules_StopsAtError(_, _, _, _, _)
RunRules_StopsAtError(i, st, ruleSeq, metrics, timestamp) ==
    IF i > Len(ruleSeq) THEN st
    ELSE IF RuleRaises(st, ruleSeq, ruleSeq[i], metrics) THEN st
    ELSE RunRules_StopsAtError(
             i + 1, CheckRule(st, ruleSeq, ruleSeq[i], metrics, timestamp),
             ruleSeq, metrics, timestamp)

\* check_conditions' loop over rules i..Len(ruleSeq), in registry order
RECURSIVE RunRules(_, _, _, _, _)
RunRules(i, st, ruleSeq, metrics, timestamp) ==
    IF i > Len(ruleSeq) THEN st
    ELSE RunRules(i + 1, CheckRule(st, ruleSeq, ruleSeq[i], metrics, timestamp),
                  ruleSeq, metrics, timestamp)

\* mutant: the cycle runs whatever the global flag says
CycleResult_FlagIgnored(st, ruleSeq, enabledFlag, metrics, timestamp) ==
    RunRules(1, st, ruleSeq, metrics, timestamp)

\* check_conditions: nothing at all when alerting is globally disabled
CycleResult(st, ruleSeq, enabledFlag, metrics, timestamp) ==
    IF ~enabledFlag THEN st
    ELSE RunRules(1, st, ruleSeq, metrics, timestamp)

\* The Alert force_alert creates: no labels
ManualAlert(level, timestamp) ==
    [id |-> <<"manual", IntSec(timestamp)>>,
     message |-> <<"given", <<>>>>,
     level |-> level,
     timestamp |-> timestamp,
     source |-> "manual",
     labels |-> EmptyDict,
     resolved |-> FALSE,
     resolved_at |-> None]

\* channels = channels or [AlertChannel.LOG]
EffectiveChannels(channelsArg) ==
    IF channelsArg = None \/ channelsArg[1] = <<>> THEN <<"log">>
    ELSE channelsArg[1]

\* mutant: force_alert does nothing while alerting is globally disabled
ForceAlertResult_Gated(st, level, channelsArg, timestamp) ==
    IF ~alertingEnabled THEN st
    ELSE LET ref == Len(st.alerts) + 1
         IN  [st EXCEPT !.alerts = Append(st.alerts,
                                          ManualAlert(level, timestamp)),
                        !.dispatchLog = Append(st.dispatchLog,
                            SendAlert(ref, EffectiveChannels(channelsArg))),
                        !.history = Append(st.history, ref)]

\* mutant: the manual alert is entered in the active index and in the
\* throttle map like a rule's alert
ForceAlertResult_AsRule(st, level, channelsArg, timestamp) ==
    LET ref == Len(st.alerts) + 1
    IN  [st EXCEPT !.alerts = Append(st.alerts, ManualAlert(level, timestamp)),
                   !.dispatchLog = Append(st.dispatchLog,
                       SendAlert(ref, EffectiveChannels(channelsArg))),
                   !.history = Append(st.history, ref),
                   !.active = DictSet(st.active, "manual", ref),
                   !.lastSent = DictSet(st.lastSent, "manual", timestamp)]

\* force_alert: dispatch first, then append to the history under the lock
ForceAlertResult(st, level, channelsArg, timestamp) ==
    LET ref == Len(st.alerts) + 1
    IN  [st EXCEPT !.alerts = Append(st.alerts, ManualAlert(level, timestamp)),
                   !.dispatchLog = Append(st.dispatchLog,
                       SendAlert(ref, EffectiveChannels(channelsArg))),
                   !.history = Append(st.history, ref)]

\* mutant: every rule gets the flag
SetRuleEnabled_EveryRule(ruleSeq, rule_name, flag) ==
    [i \in DOMAIN ruleSeq |-> [ruleSeq[i] EXCEPT !.enabled = flag]]

\* enable_rule / disable_rule: the first rule of that name gets the flag
SetRuleEnabled(ruleSeq, rule_name, flag) ==
    LET rule == FindRule(ruleSeq, rule_name)
    IN  IF rule = None THEN ruleSeq
        ELSE LET k == CHOOSE i \in DOMAIN ruleSeq :
                          /\ ruleSeq[i].name = rule_name
                          /\ \A j \in 1..(i - 1) : ruleSeq[j].name # rule_name
             IN  [ruleSeq EXCEPT ![k].enabled = flag]

RuleExists(ruleSeq, rule_name) == FindRule(ruleSeq, rule_name) # None

-----------------------------------------------------------------------------
(* Inputs.                                                                 *)

\* a metrics snapshot, as the monitoring supervisor hands it over
Snapshot(failures, cpu, status) ==
    [consecutive_health_failures |-> Num(failures),
     circuit_state |-> Str("closed"),
     cpu_percent |-> Num(cpu),
     memory_percent |-> Num(MemoryThreshold),
     process_status |-> Str(status)]

\* the snapshots of the model: all quiet; three and five failed health
\* checks (the thresholds of the two health rules); the process dead
Snapshots ==
    {Snapshot(0, CpuThreshold, "running"),
     Snapshot(3, CpuThreshold, "running"),
     Snapshot(5, CpuThreshold, "running"),
     Snapshot(2, CpuThreshold, "dead")}

\* by how much the clock advances between two operations: half a second,
\* ten seconds, 300 seconds (the throttle window of health_check_failing)
\* and 400 seconds
Deltas ==
    {1, Seconds(10), Seconds(300), Seconds(400)}

ForceLevels == {"info"}
ForceChannels == {None, Some(<<"email", "webhook">>)}
RuleNameArgs == {"health_check_failing"}

\* rule names for enable_rule and disable_rule where the names themselves
\* matter: two rules of the registry and two names no rule has
ToggleNames == {"custom_rule", "health_check_failing", "no_such_rule", ""}

\* conditions a rule written by hand may have, besides the built-in ones:
\* a name that is not in the context; a string ordered against a number; a
\* string that does not parse; a condition whose second operand names an
\* unknown field and is not evaluated when the first operand is true; a
\* string compared for inequality with a number
CustomConditions ==
    {Cmp(">", Field("queue_depth"), Lit(Num(1))),
     Cmp(">", Field("circuit_state"), Lit(Num(3))),
     Malformed,
     Or(Cmp("<", Field("consecutive_health_failures"), Lit(Num(3))),
        Cmp(">", Field("queue_depth"), Lit(Num(1)))),
     Cmp("!=", Field("circuit_state"), Lit(Num(3)))}

\* the registry with a custom rule between the first and the second
\* built-in rule
CustomRegistries ==
    {<<InitializeAlertRules[1]>>
        \o <<AlertRule("custom_rule", c, "warning", 300)>>
        \o Tail(InitializeAlertRules) : c \in CustomConditions}

\* registries whose first rule is a custom one that raises: in one its
\* throttle is no number and its condition is true on the quiet snapshots,
\* so its second trigger raises in the throttle check; in the other its
\* condition names a field no snapshot has, so its evaluation raises
FaultyRegistries ==
    {<<AlertRule("custom_rule",
                 Cmp("<", Field("consecutive_health_failures"), Lit(Num(3))),
                 "warning", NotANumber)>>
        \o InitializeAlertRules,
     <<AlertRule("custom_rule",
                 Cmp(">", Field("queue_depth"), Lit(Num(1))),
                 "warning", 300)>>
        \o InitializeAlertRules}

\* the rules a cycle evaluates true: none when alerting is disabled, and
\* only enabled rules are evaluated
EvaluatedTrue(ruleSeq, enabledFlag, metrics) ==
    IF ~enabledFlag THEN {}
    ELSE {ruleSeq[i].name : i \in {j \in DOMAIN ruleSeq :
              /\ ruleSeq[j].enabled
              /\ EvaluateCondition(ruleSeq[j].condition, metrics)}}

\* what `last` records: whether the last operation was a cycle of
\* check_conditions, a force_alert, an enable_rule, a disable_rule or
\* another one, the rules a cycle evaluated true, and what enable_rule or
\* disable_rule returned
Op(name, fired) == [op |-> name, fired |-> fired, returned |-> None]
Returned(name, value) == [op |-> name, fired |-> {}, returned |-> Some(value)]

-----------------------------------------------------------------------------
(* The AlertManager's operations.                                          *)

\* AlertManager.__init__, but for the registry
EmptyAlertManager ==
    /\ active = EmptyDict
    /\ history = <<>>
    /\ counts = EmptyDict
    /\ lastSent = EmptyDict
    /\ alerts = <<>>
    /\ dispatchLog = <<>>
    /\ alertingEnabled = TRUE
    /\ now = 0
    /\ clockSteps = 0
    /\ last = Op("other", {})

AlertInit ==
    /\ rules = InitializeAlertRules
    /\ EmptyAlertManager

SetAlertState(st) ==
    /\ active' = st.active
    /\ history' = st.history
    /\ counts' = st.counts
    /\ lastSent' = st.lastSent
    /\ alerts' = st.alerts
    /\ dispatchLog' = st.dispatchLog

\* time passes
Advance(d) ==
    /\ clockSteps < MaxClockSteps
    /\ now' = now + d
    /\ clockSteps' = clockSteps + 1
    /\ last' = Op("other", {})
    /\ UNCHANGED <<rules, active, history, counts, lastSent, alerts,
                   dispatchLog, alertingEnabled>>
    /\ UNCHANGED <<program, supVars, cliVars, envVars, svcVars, taskVars>>

\* await check_conditions(metrics), with current_time = time.time() = now
CheckConditions(metrics) ==
    LET st == CycleResult(AlertState, rules, alertingEnabled, metrics, now)
    IN  /\ Len(st.alerts) <= MaxAlerts
        /\ SetAlertState(st)
        /\ last' = Op("check_conditions",
                     EvaluatedTrue(rules, alertingEnabled, metrics))
        /\ UNCHANGED <<rules, alertingEnabled, now, clockSteps>>
        /\ UNCHANGED <<program, supVars, cliVars, envVars, svcVars, taskVars>>

\* await force_alert(title, message, level, channels)
ForceAlert(level, channelsArg) ==
    /\ Len(alerts) < MaxAlerts
    /\ SetAlertState(ForceAlertResult(AlertState, level, channelsArg, now))
    /\ last' = Op("force_alert", {})
    /\ UNCHANGED <<rules, alertingEnabled, now, clockSteps>>
    /\ UNCHANGED <<program, supVars, cliVars, envVars, svcVars, taskVars>>

\* enable_rule(rule_name)
EnableRule(rule_name) ==
    /\ rules' = SetRuleEnabled(rules, rule_name, TRUE)
    /\ last' = Returned("enable_rule", RuleExists(rules, rule_name))
    /\ UNCHANGED <<active, history, counts, lastSent, alerts, dispatchLog,
                   alertingEnabled, now, clockSteps>>
    /\ UNCHANGED <<program, supVars, cliVars, envVars, svcVars, taskVars>>

\* disable_rule(rule_name)
DisableRule(rule_name) ==
    /\ Cardinality({i \in DOMAIN rules :
                       ~rules[i].enabled /\ rules[i].name # rule_name})
           < MaxDisabled
    /\ rules' = SetRuleEnabled(rules, rule_name, FALSE)
    /\ last' = Returned("disable_rule", RuleExists(rules, rule_name))
    /\ UNCHANGED <<active, history, counts, lastSent, alerts, dispatchLog,
                   alertingEnabled, now, clockSteps>>
    /\ UNCHANGED <<program, supVars, cliVars, envVars, svcVars, taskVars>>

\* mutant: clear_alert_history also empties the active index
ClearAlertHistory_AlsoActive ==
    /\ history' = <<>>
    /\ counts' = EmptyDict
    /\ active' = EmptyDict
    /\ last' = Op("other", {})
    /\ UNCHANGED <<rules, lastSent, alerts, dispatchLog,
                   alertingEnabled, now, clockSteps>>
    /\ UNCHANGED <<program, supVars, cliVars, envVars, svcVars, taskVars>>

\* clear_alert_history()
ClearAlertHistory ==
    /\ history' = <<>>
    /\ counts' = EmptyDict
    /\ last' = Op("other", {})
    /\ UNCHANGED <<rules, active, lastSent, alerts, dispatchLog,
                   alertingEnabled, now, clockSteps>>
    /\ UNCHANGED <<program, supVars, cliVars, envVars, svcVars, taskVars>>

\* the configuration flag config.monitoring.alerting_enabled is set
SetAlertingEnabled(flag) ==
    /\ alertingEnabled' = flag
    /\ last' = Op("other", {})
    /\ UNCHANGED <<rules, active, history, counts, lastSent, alerts,
                   dispatchLog, now, clockSteps>>
    /\ UNCHANGED <<program, supVars, cliVars, envVars, svcVars, taskVars>>

AlertNext ==
    \/ \E d \in Deltas : Advance(d)
    \/ \E m \in Snapshots : CheckConditions(m)
    \/ \E l \in ForceLevels, c \in ForceChannels : ForceAlert(l, c)
    \/ \E n \in RuleNameArgs : EnableRule(n)
    \/ \E n \in RuleNameArgs : DisableRule(n)
    \/ ClearAlertHistory
    \/ \E b \in BOOLEAN : SetAlertingEnabled(b)

-----------------------------------------------------------------------------
(* The AlertManager under concurrent coroutines.  A coroutine runs without *)
(* interruption from one await to the next; the awaits of check_conditions *)
(* and force_alert are the entries of `async with self._lock` and the      *)
(* dispatch `await self._send_alert(...)`.  Each action below is one such  *)
(* stretch of code.                                                        *)

Tasks == {"t1", "t2"}

\* a task's coroutine: not running; about to enter `async with self._lock`
\* in _trigger_alert / _resolve_alert for rule i of its cycle; inside
\* _trigger_alert's lock, awaiting _send_alert; or, in force_alert, about
\* to enter the lock to append alert `ref` to the history.  m and ts are the
\* cycle's metrics and current_time.
TaskIdle == [pc |-> "idle", i |-> 0, m |-> None, ts |-> 0, ref |-> 0]
TaskAtLock(i, m, ts) ==
    [pc |-> "lock", i |-> i, m |-> Some(m), ts |-> ts, ref |-> 0]
TaskSending(i, m, ts) ==
    [pc |-> "send", i |-> i, m |-> Some(m), ts |-> ts, ref |-> 0]
TaskForceAtLock(ref) ==
    [pc |-> "flock", i |-> 0, m |-> None, ts |-> 0, ref |-> ref]

\* an access to self._active_alerts, _alert_history, _alert_counts or
\* _last_sent: who made it, in which operation, and who held the lock
Access(by, op, holder) == Some([by |-> by, op |-> op, holder |-> holder])

TasksIdle ==
    /\ lock = None
    /\ tasks = [t \in Tasks |-> TaskIdle]
    /\ access = None
    /\ waiters = <<>>

\* mutant: a lock that is never found taken
LockFree_Always(l) == TRUE

\* asyncio.Lock: `async with self._lock` goes on when the lock is not held
LockFree(l) == l = None

\* the index of the first enabled rule at or after position i, 0 if none:
\* `for rule in self._alert_rules: if not rule.enabled: continue`
NextEnabled(ruleSeq, i) ==
    LET later == {j \in DOMAIN ruleSeq : j >= i /\ ruleSeq[j].enabled}
    IN  IF later = {} THEN 0
        ELSE CHOOSE j \in later : \A k \in later : j <= k

\* where a cycle is once it is done with rule i
AfterRule(ruleSeq, i, m, ts) ==
    LET j == NextEnabled(ruleSeq, i + 1)
    IN  IF j = 0 THEN TaskIdle ELSE TaskAtLock(j, m, ts)

\* check_conditions(metrics) begins: the flag and the clock are read, and
\* the loop runs to the first rule that is enabled, whose condition it
\* evaluates before it awaits _trigger_alert or _resolve_alert
TaskCycleBegin(t, metrics) ==
    /\ tasks[t].pc = "idle"
    /\ tasks' = [tasks EXCEPT ![t] =
                    IF ~alertingEnabled THEN TaskIdle
                    ELSE AfterRule(rules, 0, metrics, now)]
    /\ UNCHANGED <<lock, access, waiters>>
    /\ UNCHANGED <<alertVars, program, supVars, cliVars, envVars, svcVars>>

\* mutant: _trigger_alert creates the alert and goes on to the dispatch
\* without having stored it
TriggerStore_AfterDispatch(st, ruleSeq, rule, timestamp) ==
    IF ShouldThrottleAlert(st.lastSent, ruleSeq, rule.name, timestamp)
    THEN st
    ELSE [st EXCEPT !.alerts = Append(st.alerts, RuleAlert(rule, timestamp))]

\* _trigger_alert from the entry of the lock up to its await: the throttle
\* check, the new Alert and its storing; the dispatch has not begun
TriggerStore(st, ruleSeq, rule, timestamp) ==
    [TriggerAlert(st, ruleSeq, rule, timestamp)
        EXCEPT !.dispatchLog = st.dispatchLog]

\* the task enters the lock for rule i.  _resolve_alert, and a
\* _trigger_alert that is throttled, leave the lock without another await
\* and the loop runs on to the next rule; a _trigger_alert that stores an
\* alert stays in the lock at `await self._send_alert(...)`
TaskEnter(t) ==
    /\ tasks[t].pc = "lock"
    /\ LockFree(lock)
    /\ LET c == tasks[t]
           rule == rules[c.i]
           fires == EvaluateCondition(rule.condition, c.m[1])
           st == IF fires THEN TriggerStore(AlertState, rules, rule, c.ts)
                 ELSE ResolveAlert(AlertState, rule.name, c.ts)
           stored == Len(st.alerts) > Len(alerts)
       IN  /\ Len(st.alerts) <= MaxAlerts
           /\ SetAlertState(st)
           /\ lock' = IF stored THEN Some(t) ELSE lock
           /\ tasks' = [tasks EXCEPT ![t] =
                           IF stored
                           THEN [TaskSending(c.i, c.m[1], c.ts)
                                    EXCEPT !.ref = Len(st.alerts)]
                           ELSE AfterRule(rules, c.i, c.m[1], c.ts)]
           /\ access' = Access(t, IF fires THEN "_trigger_alert"
                                  ELSE "_resolve_alert", Some(t))
    /\ UNCHANGED <<rules, alertingEnabled, now, clockSteps, last, waiters>>
    /\ UNCHANGED <<program, supVars, cliVars, envVars, svcVars>>

\* _send_alert runs on the rule's channels and returns, _trigger_alert
\* leaves the lock, and the loop runs on to the next rule
TaskSendDone(t) ==
    /\ tasks[t].pc = "send"
    /\ dispatchLog' = Append(dispatchLog,
                             SendAlert(tasks[t].ref,
                                       rules[tasks[t].i].channels))
    /\ lock' = None
    /\ tasks' = [tasks EXCEPT ![t] =
                    AfterRule(rules, tasks[t].i, tasks[t].m[1], tasks[t].ts)]
    /\ UNCHANGED <<access, waiters>>
    /\ UNCHANGED <<rules, active, history, counts, lastSent, alerts,
                   alertingEnabled, now, clockSteps, last>>
    /\ UNCHANGED <<program, supVars, cliVars, envVars, svcVars>>

\* force_alert begins: the Alert is created and dispatched outside the lock
TaskForceBegin(t, level, channelsArg) ==
    /\ tasks[t].pc = "idle"
    /\ Len(alerts) < MaxAlerts
    /\ LET st == ForceAlertResult(AlertState, level, channelsArg, now)
       IN  /\ alerts' = st.alerts
           /\ dispatchLog' = st.dispatchLog
           /\ tasks' = [tasks EXCEPT ![t] = TaskForceAtLock(Len(st.alerts))]
    /\ UNCHANGED <<lock, access, waiters>>
    /\ UNCHANGED <<rules, active, history, counts, lastSent, alertingEnabled,
                   now, clockSteps, last>>
    /\ UNCHANGED <<program, supVars, cliVars, envVars, svcVars>>

\* force_alert enters the lock and appends its alert to the history
TaskForceAppend(t) ==
    /\ tasks[t].pc = "flock"
    /\ LockFree(lock)
    /\ history' = Append(history, tasks[t].ref)
    /\ tasks' = [tasks EXCEPT ![t] = TaskIdle]
    /\ access' = Access(t, "force_alert", Some(t))
    /\ UNCHANGED <<lock, waiters>>
    /\ UNCHANGED <<rules, active, counts, lastSent, alerts, dispatchLog,
                   alertingEnabled, now, clockSteps, last>>
    /\ UNCHANGED <<program, supVars, cliVars, envVars, svcVars>>

\* the synchronous readers: get_active_alerts, get_alert_history,
\* get_alert_statistics; they are called from outside every task
Readers ==
    {"get_active_alerts", "get_alert_history", "get_alert_statistics"}

\* seq[start:] of Python: a negative start counts from the end, and a
\* start outside the list is clipped
SliceFrom(seq, start) ==
    LET from == IF start < 0
                THEN (IF Len(seq) + start < 0 THEN 0 ELSE Len(seq) + start)
                ELSE (IF start > Len(seq) THEN Len(seq) ELSE start)
    IN  SubSeq(seq, from + 1, Len(seq))

\* a list object handed to a caller: its elements, and whether it is the
\* manager's own _alert_history list or a new list
ListObject(elems, own) == [elems |-> elems, own |-> own]

\* mutant: the limit is applied whenever one is given, 0 included, and
\* the slice keeps the first `limit` alerts
GetAlertHistory_Oldest(hist, limit) ==
    IF limit # None
    THEN ListObject(SubSeq(hist, 1, IF limit[1] < Len(hist)
                                    THEN limit[1] ELSE Len(hist)), FALSE)
    ELSE ListObject(hist, FALSE)

\* get_alert_history(limit): a copy of the list, cut to its last `limit`
\* elements when `limit` is truthy (neither None nor 0)
GetAlertHistory(hist, limit) ==
    IF limit # None /\ limit[1] # 0
    THEN ListObject(SliceFrom(hist, 0 - limit[1]), FALSE)
    ELSE ListObject(hist, FALSE)

RECURSIVE SumOver(_, _)
\* sum(f[x] for x in S)
SumOver(f, S) ==
    IF S = {} THEN 0
    ELSE LET x == CHOOSE y \in S : TRUE
         IN  f[x] + SumOver(f, S \ {x})

\* mutant: the total is taken from the per-rule counts
GetAlertStatistics_CountsOnly(st) ==
    [active_alerts |-> Cardinality(DOMAIN st.active),
     total_alerts_sent |-> SumOver(st.counts, DOMAIN st.counts),
     alert_counts_by_type |-> st.counts]

\* get_alert_statistics(), but for the two numbers about the registry
GetAlertStatistics(st) ==
    [active_alerts |-> Cardinality(DOMAIN st.active),
     total_alerts_sent |-> Len(st.history),
     alert_counts_by_type |-> st.counts]

\* the limits get_alert_history is called with: none, and 0 to 3
Limits == {None} \cup {Some(n) : n \in 0..3}

\* what a reader returns
ReaderValue(op, limit) ==
    CASE op = "get_active_alerts" -> active
      [] op = "get_alert_history" -> GetAlertHistory(history, limit)
      [] op = "get_alert_statistics" -> GetAlertStatistics(AlertState)

\* a reader is called (get_alert_history with `limit`) and returns
CallReader(op, limit) ==
    /\ op # "get_alert_history" => limit = None
    /\ access' = Access("caller", op, lock)
    /\ last' = Returned(op, ReaderValue(op, limit))
    /\ UNCHANGED <<lock, tasks, waiters>>
    /\ UNCHANGED <<rules, active, history, counts, lastSent, alerts,
                   dispatchLog, alertingEnabled, now, clockSteps>>
    /\ UNCHANGED <<program, supVars, cliVars, envVars, svcVars>>

\* the caller of get_alert_history removes the last element of the list it
\* was handed; the manager's list changes with it only if it is that list
CallerMutatesList ==
    /\ last.op = "get_alert_history"
    /\ last.returned[1].elems # <<>>
    /\ LET l == last.returned[1]
           cut == SubSeq(l.elems, 1, Len(l.elems) - 1)
       IN  /\ last' = Returned("get_alert_history", ListObject(cut, l.own))
           /\ history' = IF l.own THEN cut ELSE history
    /\ UNCHANGED <<lock, tasks, access, waiters>>
    /\ UNCHANGED <<rules, active, counts, lastSent, alerts,
                   dispatchLog, alertingEnabled, now, clockSteps>>
    /\ UNCHANGED <<program, supVars, cliVars, envVars, svcVars>>

\* clear_alert_history(), called while tasks may be suspended
CallClearAlertHistory ==
    /\ history' = <<>>
    /\ counts' = EmptyDict
    /\ access' = Access("caller", "clear_alert_history", lock)
    /\ UNCHANGED <<lock, tasks, waiters>>
    /\ UNCHANGED <<rules, active, lastSent, alerts, dispatchLog,
                   alertingEnabled, now, clockSteps, last>>
    /\ UNCHANGED <<program, supVars, cliVars, envVars, svcVars>>

-----------------------------------------------------------------------------
(* The canvas-server supervisor (server.py).  A process the supervisor     *)
(* spawned is "running", "exited" (it has ended and is a zombie: its pid   *)
(* and process group still exist) or "gone" (it has been reaped: the pid   *)
(* names no process).  A pid is the process's index in `procs`.            *)

\* for attempt in range(30)
PollAttempts == 30

Callers == {"tool"}

\* the supervisor state start and stop work on
SupState ==
    [canvas_process |-> canvas_process,
     canvas_process_pid |-> canvas_process_pid,
     procs |-> procs, signals |-> signals]

\* start_canvas_server: Popen either raises (the globals keep their values,
\* None is returned) or yields a new process, which the globals then name
StartCanvasServer(sup, launched) ==
    IF launched
    THEN LET pid == Len(sup.procs) + 1
         IN  [sup EXCEPT !.procs = Append(sup.procs, "running"),
                         !.canvas_process = Some(pid),
                         !.canvas_process_pid = Some(pid)]
    ELSE sup

\* the signal of stop_canvas_server raises: os.getpgid / os.killpg raise
\* ProcessLookupError for a pid that names no process; Popen.terminate
\* (os.name = 'nt') does not raise for a process that has ended
SignalRaises(sup, os) ==
    os # "nt" /\ sup.procs[sup.canvas_process_pid[1]] = "gone"

\* mutant: the signal is sent to the last process spawned even when the
\* globals name none
StopCanvasServer_NoGuard(sup, os) ==
    IF sup.procs # <<>>
    THEN [sup EXCEPT !.signals = Append(sup.signals,
                                        <<Len(sup.procs), "SIGTERM">>),
                     !.canvas_process = None,
                     !.canvas_process_pid = None]
    ELSE sup

\* stop_canvas_server: the globals are cleared after the signal was sent;
\* when the signal raises, the except branch logs and leaves them as they are
StopCanvasServer(sup, os) ==
    IF sup.canvas_process # None /\ sup.canvas_process_pid # None
    THEN IF SignalRaises(sup, os) THEN sup
         ELSE [sup EXCEPT !.signals = Append(sup.signals,
                              <<sup.canvas_process_pid[1], "SIGTERM">>),
                          !.canvas_process = None,
                          !.canvas_process_pid = None]
    ELSE sup

\* the exception classes the signal call of stop_canvas_server can raise
SignalErrors == {"ProcessLookupError", "PermissionError"}

\* the exception the signal call raises, if any
SignalError(sup, os) ==
    IF SignalRaises(sup, os) THEN Some("ProcessLookupError") ELSE None

\* `except Exception`: every class of SignalErrors derives from Exception
ExceptException(kind) == kind \in SignalErrors

\* the exception that leaves stop_canvas_server (None: it returns)
StopCanvasServerRaised(sup, os) ==
    IF sup.canvas_process # None /\ sup.canvas_process_pid # None
    THEN LET e == SignalError(sup, os)
         IN  IF e # None /\ ~ExceptException(e[1]) THEN e ELSE None
    ELSE None

\* where a call of ensure_canvas_server_running is: idle (not running; ret
\* is what the last call returned) or in the poll loop, having made
\* `attempt` probes there
EnsureIdle(ret) == [pc |-> "idle", attempt |-> 0, ret |-> ret]
EnsurePolling(attempt) == [pc |-> "poll", attempt |-> attempt, ret |-> None]

\* mutant: the worker is launched whatever the first probe reports
EnsureBeginResult_Relaunch(sup, auto, healthy, launched) ==
    IF ~auto
    THEN [sup |-> sup, call |-> EnsureIdle(Some(healthy)), started |-> FALSE]
    ELSE IF launched
         THEN [sup |-> StartCanvasServer(sup, TRUE),
               call |-> EnsurePolling(0), started |-> TRUE]
         ELSE [sup |-> StartCanvasServer(sup, FALSE),
               call |-> EnsureIdle(Some(healthy)), started |-> TRUE]

\* ensure_canvas_server_running up to its poll loop: the first probe, and
\* the start when the probe is not healthy; `started` says whether
\* start_canvas_server was called
EnsureBeginResult(sup, auto, healthy, launched) ==
    IF ~auto
    THEN [sup |-> sup, call |-> EnsureIdle(Some(healthy)), started |-> FALSE]
    ELSE IF healthy
    THEN [sup |-> sup, call |-> EnsureIdle(Some(TRUE)), started |-> FALSE]
    ELSE IF launched
         THEN [sup |-> StartCanvasServer(sup, TRUE),
               call |-> EnsurePolling(0), started |-> TRUE]
         ELSE [sup |-> StartCanvasServer(sup, FALSE),
               call |-> EnsureIdle(Some(FALSE)), started |-> TRUE]

\* mutant: the poll loop has no last round
EnsurePollResult_NeverGivesUp(sup, os, call, healthy) ==
    IF healthy THEN [sup |-> sup, call |-> EnsureIdle(Some(TRUE))]
    ELSE IF call.attempt + 1 < PollAttempts
         THEN [sup |-> sup, call |-> EnsurePolling(call.attempt + 1)]
         ELSE [sup |-> sup, call |-> EnsurePolling(call.attempt)]

\* one round of the poll loop (sleep 1 s, probe), and what follows the loop
\* when the last probe fails too: stop_canvas_server(), return False
EnsurePollResult(sup, os, call, healthy) ==
    IF healthy THEN [sup |-> sup, call |-> EnsureIdle(Some(TRUE))]
    ELSE IF call.attempt + 1 < PollAttempts
         THEN [sup |-> sup, call |-> EnsurePolling(call.attempt + 1)]
         ELSE [sup |-> StopCanvasServer(sup, os),
               call |-> EnsureIdle(Some(FALSE))]

\* what supLast records of a step: the operation, the caller, the outcome of
\* the health probe made in the step (None when none was made), whether
\* the step called start_canvas_server, canvas_process_pid as it was
\* before the step, and the exception that left a stop_canvas_server called
\* in the step (None when none did)
SupOp(op, caller, probe, started) ==
    [op |-> op, caller |-> caller, probe |-> probe, started |-> started,
     handle |-> canvas_process_pid,
     raised |-> IF op = "stop"
                   \/ (/\ op = "ensure_poll"
                       /\ probe = Some(FALSE)
                       /\ ensure[caller].attempt + 1 = PollAttempts)
                THEN StopCanvasServerRaised(SupState, osName)
                ELSE None]

SupIdle ==
    /\ canvas_process = None
    /\ canvas_process_pid = None
    /\ procs = <<>>
    /\ signals = <<>>
    /\ ensure = [c \in Callers |-> EnsureIdle(None)]
    /\ supLast = SupOp("init", "none", None, FALSE)

SupInit ==
    /\ osName \in {"posix", "nt"}
    /\ autoStart \in BOOLEAN
    /\ SupIdle

SetSupState(sup) ==
    /\ canvas_process' = sup.canvas_process
    /\ canvas_process_pid' = sup.canvas_process_pid
    /\ procs' = sup.procs
    /\ signals' = sup.signals

\* a caller enters ensure_canvas_server_running; the code runs on to the
\* return or to the first sleep of the poll loop
EnsureBegin(c, healthy, launched) ==
    /\ program = "server"
    /\ ensure[c].pc = "idle"
    /\ (autoStart /\ ~healthy /\ launched) => Len(procs) < MaxStarts
    /\ LET r == EnsureBeginResult(SupState, autoStart, healthy, launched)
       IN  /\ SetSupState(r.sup)
           /\ ensure' = [ensure EXCEPT ![c] = r.call]
           /\ supLast' = SupOp("ensure_begin", c, Some(healthy), r.started)
    /\ UNCHANGED <<osName, autoStart, program, alertVars, cliVars,
                   envVars, svcVars, taskVars>>

\* the caller's sleep ends and its next probe answers
EnsurePoll(c, healthy) ==
    /\ program = "server"
    /\ ensure[c].pc = "poll"
    /\ LET r == EnsurePollResult(SupState, osName, ensure[c], healthy)
       IN  /\ SetSupState(r.sup)
           /\ ensure' = [ensure EXCEPT ![c] = r.call]
    /\ supLast' = SupOp("ensure_poll", c, Some(healthy), FALSE)
    /\ UNCHANGED <<osName, autoStart, program, alertVars, cliVars,
                   envVars, svcVars, taskVars>>

\* stop_canvas_server() called on its own, as cleanup_on_exit does
Stop ==
    /\ program = "server"
    /\ SetSupState(StopCanvasServer(SupState, osName))
    /\ supLast' = SupOp("stop", "none", None, FALSE)
    /\ UNCHANGED <<osName, autoStart, ensure, program, alertVars, cliVars,
                   envVars, svcVars, taskVars>>

\* a spawned process ends
ProcExits(pid) ==
    /\ program = "server"
    /\ pid \in DOMAIN procs
    /\ procs[pid] = "running"
    /\ procs' = [procs EXCEPT ![pid] = "exited"]
    /\ supLast' = SupOp("env", "none", None, FALSE)
    /\ UNCHANGED <<osName, autoStart, canvas_process, canvas_process_pid,
                   signals, ensure, program, alertVars, cliVars,
                   envVars, svcVars, taskVars>>

\* an ended process is reaped
ProcReaped(pid) ==
    /\ program = "server"
    /\ pid \in DOMAIN procs
    /\ procs[pid] = "exited"
    /\ procs' = [procs EXCEPT ![pid] = "gone"]
    /\ supLast' = SupOp("env", "none", None, FALSE)
    /\ UNCHANGED <<osName, autoStart, canvas_process, canvas_process_pid,
                   signals, ensure, program, alertVars, cliVars,
                   envVars, svcVars, taskVars>>

\* what the /health endpoint does with a GET: it answers with a status
\* code within the timeout, it refuses the connection, or it does not answer
\* within the timeout
Responds(status) == [kind |-> "responds", status |-> status]
Refuses == [kind |-> "refuses", status |-> 0]
Hangs == [kind |-> "hangs", status |-> 0]

Endpoints ==
    {Responds(200), Responds(204), Responds(404), Responds(503),
     Refuses, Hangs}

\* client.get(url) with timeout 5.0: the response's status code, or the
\* exception httpx raises
HttpGet(e) ==
    CASE e.kind = "responds" -> Ok(e.status)
      [] e.kind = "refuses" -> Raise("ConnectError")
      [] e.kind = "hangs" -> Raise("ReadTimeout")

\* mutant: every 2xx answer counts as healthy
CheckCanvasServerHealth_AnySuccess(e) ==
    LET r == HttpGet(e)
    IN  IF IsOk(r) THEN r[2] \in 200..299 ELSE FALSE

\* check_canvas_server_health: status_code == 200, and False from the
\* except branch
CheckCanvasServerHealth(e) ==
    LET r == HttpGet(e)
    IN  IF IsOk(r) THEN r[2] = 200 ELSE FALSE

\* the endpoint as it is when the supervisor is not probed against one
EnvIdle == endpoint = Refuses /\ down = {}

\* a caller that runs no tool operation; `gate` is what
\* ensure_canvas_server_running returned last inside the operation
ToolIdle == [pc |-> "idle", tool |-> "none", left |-> 0, gate |-> None]

ExportCallers == {"e1", "e2"}

\* ExportService.__init__; `drivers` and `browsers` are the Playwright
\* drivers started and the browsers launched so far, by number
ExportService(available) ==
    [available |-> available, playwright |-> None, browser |-> None,
     page |-> None, initialized |-> FALSE, lock |-> None,
     drivers |-> <<>>, browsers |-> <<>>,
     pc |-> [c \in ExportCallers |-> "idle"]]

\* no tool operation runs and the export service is as constructed
SvcIdle ==
    /\ syncEnabled = TRUE
    /\ toolOps = [c \in Callers |-> ToolIdle]
    /\ request = None
    /\ export = ExportService(TRUE)

\* the endpoint's behaviour changes (the canvas server comes up, goes
\* down, starts to fail)
EndpointChanges(e) ==
    /\ program = "server"
    /\ e # endpoint
    /\ endpoint' = e
    /\ supLast' = SupOp("env", "none", None, FALSE)
    /\ UNCHANGED <<osName, autoStart, canvas_process, canvas_process_pid,
                   procs, signals, ensure, program, alertVars, cliVars,
                   down, svcVars, taskVars>>

SupNext ==
    \/ \E c \in Callers, h \in BOOLEAN, l \in BOOLEAN : EnsureBegin(c, h, l)
    \/ \E c \in Callers, h \in BOOLEAN : EnsurePoll(c, h)
    \/ Stop
    \/ \E pid \in 1..MaxStarts : ProcExits(pid)
    \/ \E pid \in 1..MaxStarts : ProcReaped(pid)

-----------------------------------------------------------------------------
(* The command line's stop path (cli.py).  _stop_process works on a        *)
(* psutil.Process object; the process it refers to is "running" or "gone". *)
(* psutil raises NoSuchProcess from terminate() and kill() for a process   *)
(* that is gone, and may raise AccessDenied for one that is running.       *)

\* the two calls of _stop_process in `stop`: process_name and timeout
StopTargets ==
    {[name |-> "MCP server", timeout |-> 10],
     [name |-> "Canvas server", timeout |-> 5]}

\* how a running process answers: it exits on terminate within the timeout;
\* it ignores terminate and dies on kill; it ignores terminate and is gone
\* when kill is called; every signal is denied; or terminate is accepted and
\* ignored and the kill after the wait is denied
Behaviours == {"exits", "ignores", "vanishes", "denied", "kill_denied"}

Call(name, result) == [call |-> name, result |-> result]
Outcome(name, kind) == [name |-> name, kind |-> kind]

\* mutant: no catch-all handler; an error other than NoSuchProcess leaves
\* _stop_process as an exception
StopProcess_Propagates(status, process_name, force, timeout, beh) ==
    IF force
    THEN IF status = "gone"
         THEN [outcome |-> Outcome(process_name, "already stopped"),
               calls |-> << Call("kill", "NoSuchProcess") >>,
               status |-> "gone"]
         ELSE IF beh \in {"denied", "kill_denied"}
         THEN [outcome |-> Outcome(process_name, "raised"),
               calls |-> << Call("kill", "AccessDenied") >>,
               status |-> "running"]
         ELSE [outcome |-> Outcome(process_name, "killed"),
               calls |-> << Call("kill", "ok") >>,
               status |-> "gone"]
    ELSE IF status = "gone"
         THEN [outcome |-> Outcome(process_name, "already stopped"),
               calls |-> << Call("terminate", "NoSuchProcess") >>,
               status |-> "gone"]
         ELSE CASE beh = "denied" ->
                    [outcome |-> Outcome(process_name, "raised"),
                     calls |-> << Call("terminate", "AccessDenied") >>,
                     status |-> "running"]
                [] beh = "exits" ->
                    [outcome |-> Outcome(process_name, "terminated"),
                     calls |-> << Call("terminate", "ok"),
                                  Call(<<"wait", timeout>>, "ok") >>,
                     status |-> "gone"]
                [] beh = "ignores" ->
                    [outcome |-> Outcome(process_name, "force killed"),
                     calls |-> << Call("terminate", "ok"),
                                  Call(<<"wait", timeout>>, "TimeoutExpired"),
                                  Call("kill", "ok") >>,
                     status |-> "gone"]
                [] beh = "vanishes" ->
                    [outcome |-> Outcome(process_name, "already stopped"),
                     calls |-> << Call("terminate", "ok"),
                                  Call(<<"wait", timeout>>, "TimeoutExpired"),
                                  Call("kill", "NoSuchProcess") >>,
                     status |-> "gone"]
                [] beh = "kill_denied" ->
                    [outcome |-> Outcome(process_name, "raised"),
                     calls |-> << Call("terminate", "ok"),
                                  Call(<<"wait", timeout>>, "TimeoutExpired"),
                                  Call("kill", "AccessDenied") >>,
                     status |-> "running"]

\* mutant: on the graceful path the kill is sent whether or not the wait
\* timed out
StopProcess_AlwaysKills(status, process_name, force, timeout, beh) ==
    IF force
    THEN IF status = "gone"
         THEN [outcome |-> Outcome(process_name, "already stopped"),
               calls |-> << Call("kill", "NoSuchProcess") >>,
               status |-> "gone"]
         ELSE IF beh \in {"denied", "kill_denied"}
         THEN [outcome |-> Outcome(process_name, "failed to stop"),
               calls |-> << Call("kill", "AccessDenied") >>,
               status |-> "running"]
         ELSE [outcome |-> Outcome(process_name, "killed"),
               calls |-> << Call("kill", "ok") >>,
               status |-> "gone"]
    ELSE IF status = "gone"
         THEN [outcome |-> Outcome(process_name, "already stopped"),
               calls |-> << Call("terminate", "NoSuchProcess") >>,
               status |-> "gone"]
         ELSE CASE beh = "denied" ->
                    [outcome |-> Outcome(process_name, "failed to stop"),
                     calls |-> << Call("terminate", "AccessDenied") >>,
                     status |-> "running"]
                [] beh = "exits" ->
                    [outcome |-> Outcome(process_name, "force killed"),
                     calls |-> << Call("terminate", "ok"),
                                  Call(<<"wait", timeout>>, "ok"),
                                  Call("kill", "ok") >>,
                     status |-> "gone"]
                [] beh = "ignores" ->
                    [outcome |-> Outcome(process_name, "force killed"),
                     calls |-> << Call("terminate", "ok"),
                                  Call(<<"wait", timeout>>, "TimeoutExpired"),
                                  Call("kill", "ok") >>,
                     status |-> "gone"]
                [] beh = "vanishes" ->
                    [outcome |-> Outcome(process_name, "already stopped"),
                     calls |-> << Call("terminate", "ok"),
                                  Call(<<"wait", timeout>>, "TimeoutExpired"),
                                  Call("kill", "NoSuchProcess") >>,
                     status |-> "gone"]
                [] beh = "kill_denied" ->
                    [outcome |-> Outcome(process_name, "failed to stop"),
                     calls |-> << Call("terminate", "ok"),
                                  Call(<<"wait", timeout>>, "TimeoutExpired"),
                                  Call("kill", "AccessDenied") >>,
                     status |-> "running"]

\* _stop_process(process, process_name, force, timeout): the status message,
\* the psutil calls made and their results, and the process afterwards
StopProcess(status, process_name, force, timeout, beh) ==
    IF force
    THEN IF status = "gone"
         THEN [outcome |-> Outcome(process_name, "already stopped"),
               calls |-> << Call("kill", "NoSuchProcess") >>,
               status |-> "gone"]
         ELSE IF beh \in {"denied", "kill_denied"}
         THEN [outcome |-> Outcome(process_name, "failed to stop"),
               calls |-> << Call("kill", "AccessDenied") >>,
               status |-> "running"]
         ELSE [outcome |-> Outcome(process_name, "killed"),
               calls |-> << Call("kill", "ok") >>,
               status |-> "gone"]
    ELSE IF status = "gone"
         THEN [outcome |-> Outcome(process_name, "already stopped"),
               calls |-> << Call("terminate", "NoSuchProcess") >>,
               status |-> "gone"]
         ELSE CASE beh = "denied" ->
                    [outcome |-> Outcome(process_name, "failed to stop"),
                     calls |-> << Call("terminate", "AccessDenied") >>,
                     status |-> "running"]
                [] beh = "exits" ->
                    [outcome |-> Outcome(process_name, "terminated"),
                     calls |-> << Call("terminate", "ok"),
                                  Call(<<"wait", timeout>>, "ok") >>,
                     status |-> "gone"]
                [] beh = "ignores" ->
                    [outcome |-> Outcome(process_name, "force killed"),
                     calls |-> << Call("terminate", "ok"),
                                  Call(<<"wait", timeout>>, "TimeoutExpired"),
                                  Call("kill", "ok") >>,
                     status |-> "gone"]
                [] beh = "vanishes" ->
                    [outcome |-> Outcome(process_name, "already stopped"),
                     calls |-> << Call("terminate", "ok"),
                                  Call(<<"wait", timeout>>, "TimeoutExpired"),
                                  Call("kill", "NoSuchProcess") >>,
                     status |-> "gone"]
                [] beh = "kill_denied" ->
                    [outcome |-> Outcome(process_name, "failed to stop"),
                     calls |-> << Call("terminate", "ok"),
                                  Call(<<"wait", timeout>>, "TimeoutExpired"),
                                  Call("kill", "AccessDenied") >>,
                     status |-> "running"]

\* _serve_http has not been entered
ServeIdle ==
    [pc |-> "idle", monitoring |-> FALSE, sup |-> "none", pm |-> "none",
     fin |-> "none", log |-> <<>>]

CliIdle ==
    /\ cliProc = "running"
    /\ cliLast = None
    /\ serve = ServeIdle

\* _stop_process is called on the process object
CliStopProcess(target, force, beh) ==
    /\ program = "cli"
    /\ LET r == StopProcess(cliProc, target.name, force, target.timeout, beh)
       IN  /\ cliProc' = r.status
           /\ cliLast' = Some([was |-> cliProc, force |-> force,
                               outcome |-> r.outcome, calls |-> r.calls])
    /\ UNCHANGED <<serve, program, alertVars, supVars, envVars, svcVars, taskVars>>

\* the process ends by itself after the process object was obtained
CliProcessEnds ==
    /\ program = "cli"
    /\ cliProc = "running"
    /\ cliProc' = "gone"
    /\ cliLast' = None
    /\ UNCHANGED <<serve, program, alertVars, supVars, envVars, svcVars, taskVars>>

\* a process object is obtained for another, running, process
CliProcessFound ==
    /\ program = "cli"
    /\ cliProc = "gone"
    /\ cliProc' = "running"
    /\ cliLast' = None
    /\ UNCHANGED <<serve, program, alertVars, supVars, envVars, svcVars, taskVars>>

CliNext ==
    \/ \E t \in StopTargets, f \in BOOLEAN, b \in Behaviours :
           CliStopProcess(t, f, b)
    \/ CliProcessEnds
    \/ CliProcessFound

-----------------------------------------------------------------------------
(* Specifications.                                                         *)

\* the alert engine with the built-in registry
Init ==
    /\ AlertInit
    /\ program = "server"
    /\ osName = "posix"
    /\ autoStart = TRUE
    /\ SupIdle
    /\ CliIdle
    /\ EnvIdle
    /\ SvcIdle
    /\ TasksIdle

Next == AlertNext

Spec == Init /\ [][Next]_vars

\* the alert engine with a registry that holds one more rule, whose
\* condition is one of CustomConditions
CustomInit ==
    /\ rules \in CustomRegistries
    /\ EmptyAlertManager
    /\ program = "server"
    /\ osName = "posix"
    /\ autoStart = TRUE
    /\ SupIdle
    /\ CliIdle
    /\ EnvIdle
    /\ SvcIdle
    /\ TasksIdle

CustomNext ==
    \/ \E d \in Deltas : Advance(d)
    \/ \E m \in Snapshots : CheckConditions(m)
    \/ \E b \in BOOLEAN : SetAlertingEnabled(b)

SpecRules == CustomInit /\ [][CustomNext]_vars

\* the alert engine with a registry whose first rule makes _trigger_alert
\* raise
FaultyInit ==
    /\ rules \in FaultyRegistries
    /\ EmptyAlertManager
    /\ program = "server"
    /\ osName = "posix"
    /\ autoStart = TRUE
    /\ SupIdle
    /\ CliIdle
    /\ EnvIdle
    /\ SvcIdle
    /\ TasksIdle

SpecFaulty == FaultyInit /\ [][CustomNext]_vars

\* conditions that are more than comparisons of fields and literals: a
\* method call, an attribute access and an assignment
CodeConditions ==
    {Cmp("==", MethodCall(Field("circuit_state"), "upper"),
         Lit(Str("CLOSED"))),
     Attr(Field("circuit_state"), "__class__"),
     Cmp("==", Attr(Field("cpu_percent"), "queue"), Lit(Num(1))),
     Assign("cpu_percent", Lit(Num(100)))}

CodeRegistries ==
    {<<InitializeAlertRules[1]>>
        \o <<AlertRule("custom_rule", c, "warning", 300)>>
        \o Tail(InitializeAlertRules) : c \in CodeConditions}

\* the alert engine with a registry that holds such a rule
CodeInit ==
    /\ rules \in CodeRegistries
    /\ EmptyAlertManager
    /\ program = "server"
    /\ osName = "posix"
    /\ autoStart = TRUE
    /\ SupIdle
    /\ CliIdle
    /\ EnvIdle
    /\ SvcIdle
    /\ TasksIdle

SpecCode == CodeInit /\ [][CustomNext]_vars

\* registries whose first rule is a custom one that notifies on three
\* channels (the second has no sender) and has a throttle window of zero
\* seconds; its condition is true on the quiet snapshots.  In the second
\* registry the two health rules have been disabled by disable_rule.
NotifyRegistry ==
    <<[AlertRule("custom_rule",
                 Cmp("<", Field("consecutive_health_failures"), Lit(Num(3))),
                 "warning", 0)
          EXCEPT !.channels = <<"webhook", "email", "log">>]>>
       \o InitializeAlertRules

NotifyRegistries ==
    {NotifyRegistry,
     SetRuleEnabled(SetRuleEnabled(NotifyRegistry,
                                   "health_check_failing", FALSE),
                    "health_check_critical", FALSE)}

\* the alert engine with that registry, and with any of the senders
\* raising
NotifyInit ==
    /\ rules \in NotifyRegistries
    /\ EmptyAlertManager
    /\ program = "server"
    /\ osName = "posix"
    /\ autoStart = TRUE
    /\ SupIdle
    /\ CliIdle
    /\ endpoint = Refuses
    /\ down \in SUBSET Senders
    /\ SvcIdle
    /\ TasksIdle

NotifyNext ==
    \/ \E d \in Deltas : Advance(d)
    \/ \E m \in Snapshots : CheckConditions(m)
    \/ \E l \in ForceLevels, c \in ForceChannels : ForceAlert(l, c)

SpecNotify == NotifyInit /\ [][NotifyNext]_vars

\* the supervisor of server.py and, as another program, cli.py's stop path
SupervisorInit ==
    /\ AlertInit
    /\ program \in {"server", "cli"}
    /\ SupInit
    /\ CliIdle
    /\ EnvIdle
    /\ SvcIdle
    /\ TasksIdle

SupervisorNext == SupNext \/ CliNext

SpecSup == SupervisorInit /\ [][SupervisorNext]_vars

\* the supervisor with its scheduling: a call in the poll loop is resumed by
\* the event loop when its 1 s sleep ends, and its probe answers or times
\* out (httpx timeout 5 s), so the next round of a call in the loop is
\* eventually taken
SpecSupFair ==
    /\ SupervisorInit
    /\ [][SupervisorNext]_vars
    /\ \A c \in Callers : WF_vars(\E h \in BOOLEAN : EnsurePoll(c, h))

\* the supervisor with its probes made against the endpoint as it is
ProbeInit ==
    /\ AlertInit
    /\ program = "server"
    /\ SupInit
    /\ CliIdle
    /\ endpoint \in Endpoints
    /\ down = {}
    /\ SvcIdle
    /\ TasksIdle

ProbeNext ==
    \/ \E e \in Endpoints : EndpointChanges(e)
    \/ \E c \in Callers, l \in BOOLEAN :
           EnsureBegin(c, CheckCanvasServerHealth(endpoint), l)
    \/ \E c \in Callers : EnsurePoll(c, CheckCanvasServerHealth(endpoint))
    \/ Stop
    \/ \E pid \in 1..MaxStarts : ProcExits(pid)
    \/ \E pid \in 1..MaxStarts : ProcReaped(pid)

SpecProbe == ProbeInit /\ [][ProbeNext]_vars

\* the rules left enabled while the tasks run (disable_rule was called for
\* the others)
TaskEnabledRules == {"health_check_failing", "health_check_critical"}

\* the snapshots the concurrent cycles are given: all quiet, and five
\* failed health checks, on which both enabled rules trigger
TaskSnapshots ==
    {Snapshot(0, CpuThreshold, "running"),
     Snapshot(5, CpuThreshold, "running")}

\* by how much the clock advances between two steps of the tasks: ten
\* seconds, and 300 seconds, the longer of the two rules' throttle windows
TaskDeltas == {Seconds(10), Seconds(300)}

\* concurrent check_conditions cycles and force_alert calls
TasksInit ==
    /\ rules = [i \in DOMAIN InitializeAlertRules |->
                   [InitializeAlertRules[i] EXCEPT
                       !.enabled = InitializeAlertRules[i].name
                                       \in TaskEnabledRules]]
    /\ EmptyAlertManager
    /\ program = "server"
    /\ osName = "posix"
    /\ autoStart = TRUE
    /\ SupIdle
    /\ CliIdle
    /\ EnvIdle
    /\ SvcIdle
    /\ TasksIdle

TasksNext ==
    \/ \E d \in TaskDeltas : Advance(d)
    \/ \E t \in Tasks, m \in TaskSnapshots : TaskCycleBegin(t, m)
    \/ \E t \in Tasks : TaskEnter(t)
    \/ \E t \in Tasks : TaskSendDone(t)
    \/ \E t \in Tasks, l \in ForceLevels, c \in ForceChannels :
           TaskForceBegin(t, l, c)
    \/ \E t \in Tasks : TaskForceAppend(t)

SpecTasks == TasksInit /\ [][TasksNext]_vars

\* the alert engine with the first of these registries, and with its rules
\* enabled and disabled by name
ToggleNext ==
    \/ \E d \in TaskDeltas : Advance(d)
    \/ \E m \in Snapshots : CheckConditions(m)
    \/ \E n \in ToggleNames : EnableRule(n)
    \/ \E n \in ToggleNames : DisableRule(n)

ToggleInit ==
    /\ rules = NotifyRegistry
    /\ EmptyAlertManager
    /\ program = "server"
    /\ osName = "posix"
    /\ autoStart = TRUE
    /\ SupIdle
    /\ CliIdle
    /\ EnvIdle
    /\ SvcIdle
    /\ TasksIdle

SpecToggle == ToggleInit /\ [][ToggleNext]_vars

\* snapshots that lack a field: snapshots of the model with one of their
\* fields left out, and the empty snapshot
PartialSnapshots ==
    {DictDel(Snapshot(2, CpuThreshold, "dead"), "process_status"),
     DictDel(Snapshot(3, CpuThreshold, "running"), "cpu_percent"),
     DictDel(Snapshot(3, CpuThreshold, "running"),
             "consecutive_health_failures"),
     DictDel(Snapshot(5, CpuThreshold, "running"), "circuit_state"),
     DictDel(Snapshot(0, CpuThreshold, "running"), "memory_percent"),
     EmptyDict}

\* a registry with a custom rule whose condition is true when the process
\* status is unknown, and whose message template has a placeholder that
\* _format_alert_message does not offer
PartialRegistry ==
    <<InitializeAlertRules[1]>>
       \o <<WithTemplate(
                AlertRule("custom_rule",
                          Cmp("==", Field("process_status"),
                              Lit(Str("unknown"))),
                          "warning", 300),
                <<"cpu_percent", "queue_depth">>)>>
       \o Tail(InitializeAlertRules)

PartialInit ==
    /\ rules = PartialRegistry
    /\ EmptyAlertManager
    /\ program = "server"
    /\ osName = "posix"
    /\ autoStart = TRUE
    /\ SupIdle
    /\ CliIdle
    /\ EnvIdle
    /\ SvcIdle
    /\ TasksIdle

PartialNext ==
    \/ \E d \in TaskDeltas : Advance(d)
    \/ \E m \in PartialSnapshots : CheckConditions(m)
    \/ \E n \in RuleNameArgs : DisableRule(n)
    \/ \E b \in BOOLEAN : SetAlertingEnabled(b)

SpecPartial == PartialInit /\ [][PartialNext]_vars

\* the tasks at one moment of the clock, with the synchronous operations
\* called in between their steps
IntrospectNext ==
    \/ \E t \in Tasks, m \in TaskSnapshots : TaskCycleBegin(t, m)
    \/ \E t \in Tasks : TaskEnter(t)
    \/ \E t \in Tasks : TaskSendDone(t)
    \/ \E t \in Tasks, l \in ForceLevels, c \in ForceChannels :
           TaskForceBegin(t, l, c)
    \/ \E t \in Tasks : TaskForceAppend(t)
    \/ \E op \in Readers, l \in Limits : CallReader(op, l)
    \/ CallerMutatesList
    \/ CallClearAlertHistory

SpecIntrospect == TasksInit /\ [][IntrospectNext]_vars

-----------------------------------------------------------------------------
(* Vocabulary of the properties.                                           *)

Range(f) == {f[x] : x \in DOMAIN f}

\* the alerts of the heap that rule `name` created
RefsOf(heap, name) ==
    {i \in DOMAIN heap : heap[i].source = "canvas_monitoring"
                         /\ heap[i].labels.rule = name}

\* the dispatch entries of alert `ref`
DispatchesOf(log, ref) == {i \in DOMAIN log : log[i].alert = ref}

\* the step is a cycle of check_conditions
IsCycle == last'.op = "check_conditions"

\* the step is a cycle that evaluates rule r, and evaluates it true / false
Evaluated(r) == IsCycle /\ alertingEnabled /\ r.enabled
CondTrue(r) == Evaluated(r) /\ r.name \in last'.fired
CondFalse(r) == Evaluated(r) /\ r.name \notin last'.fired

\* rule r was sent less than its throttle window before the clock's `now`
InThrottleWindow(r) ==
    /\ r.name \in DOMAIN lastSent
    /\ now - lastSent[r.name] < Seconds(r.throttle_seconds)

\* nothing recorded for rule `name` changes in the step: its active entry,
\* its count, its last-sent time, its alerts, their places in the history
\* and their dispatches
RuleUntouched(name) ==
    /\ (name \in DOMAIN active') = (name \in DOMAIN active)
    /\ name \in DOMAIN active => active'[name] = active[name]
    /\ (name \in DOMAIN counts') = (name \in DOMAIN counts)
    /\ name \in DOMAIN counts => counts'[name] = counts[name]
    /\ (name \in DOMAIN lastSent') = (name \in DOMAIN lastSent)
    /\ name \in DOMAIN lastSent => lastSent'[name] = lastSent[name]
    /\ RefsOf(alerts', name) = RefsOf(alerts, name)
    /\ \A i \in RefsOf(alerts, name) : alerts'[i] = alerts[i]
    /\ {i \in DOMAIN history' : history'[i] \in RefsOf(alerts', name)}
           = {i \in DOMAIN history : history[i] \in RefsOf(alerts, name)}
    /\ \A i \in RefsOf(alerts', name) :
           DispatchesOf(dispatchLog', i) = DispatchesOf(dispatchLog, i)

\* the step creates exactly one alert for rule r, at the clock's time, and
\* records and dispatches it
TriggersOnce(r) ==
    /\ Cardinality(RefsOf(alerts', r.name) \ RefsOf(alerts, r.name)) = 1
    /\ LET ref == CHOOSE i \in RefsOf(alerts', r.name) :
                      i \notin RefsOf(alerts, r.name)
       IN  /\ ref > Len(alerts)
           /\ alerts'[ref].timestamp = now
           /\ alerts'[ref].level = r.level
           /\ ~alerts'[ref].resolved
           /\ r.name \in DOMAIN active' /\ active'[r.name] = ref
           /\ ref \in Range(history')
           /\ lastSent'[r.name] = now
           /\ counts'[r.name] = DictGet(counts, r.name, 0) + 1
           /\ \E k \in DispatchesOf(dispatchLog', ref) :
                  /\ k > Len(dispatchLog)
                  /\ dispatchLog'[k].channels = r.channels

-----------------------------------------------------------------------------
\* any two alerts of one rule are at least the rule's throttle window apart
C1_AlertsApart ==
    \A i \in DOMAIN rules :
        \A a, b \in RefsOf(alerts, rules[i].name) :
            a < b => alerts[b].timestamp - alerts[a].timestamp
                         >= Seconds(rules[i].throttle_seconds)

\* C1: a rule whose condition a cycle evaluates true less than
\* throttle_seconds after the rule last triggered is suppressed: the cycle
\* creates no alert for it, dispatches nothing for it and leaves its active
\* entry, its history entries, its count and its last-sent time as they
\* were.  So any two alerts of one rule lie at least throttle_seconds
\* apart.
C1_ThrottleSuppression ==
    [][/\ C1_AlertsApart'
       /\ \A i \in DOMAIN rules :
              CondTrue(rules[i]) /\ InThrottleWindow(rules[i])
                  => RuleUntouched(rules[i].name)]_vars

\* a cycle has just evaluated a rule true inside its throttle window, and
\* the rule's alert of the earlier trigger is still the active one
C1_Witness ==
    /\ last.op = "check_conditions"
    /\ \E i \in DOMAIN rules :
           /\ rules[i].name \in last.fired
           /\ InThrottleWindow(rules[i])
           /\ lastSent[rules[i].name] < now
           /\ rules[i].name \in DOMAIN active
           /\ alerts[active[rules[i].name]].timestamp < now

-----------------------------------------------------------------------------
\* every entry of the active index refers to an alert of the rule it is
\* filed under, and no rule has two of its alerts in the index
C2_OneActivePerRule ==
    /\ \A n \in DOMAIN active :
           /\ active[n] \in DOMAIN alerts
           /\ active[n] \in RefsOf(alerts, n)
    /\ \A i \in DOMAIN rules :
           Cardinality({n \in DOMAIN active :
                           active[n] \in RefsOf(alerts, rules[i].name)}) <= 1

\* C2: at most one active alert exists per rule name, and the entry of a
\* rule holds an alert of that rule; a trigger that is not throttled, for a
\* rule that already has an active alert, puts the new alert in the place
\* of the old one: the rule still has one active alert, and the old one is
\* no longer in the index.
C2_ReplaceNotDuplicate ==
    [][/\ C2_OneActivePerRule'
       /\ \A i \in DOMAIN rules :
              /\ CondTrue(rules[i])
              /\ ~InThrottleWindow(rules[i])
              /\ rules[i].name \in DOMAIN active
              => /\ rules[i].name \in DOMAIN active'
                 /\ active'[rules[i].name] > Len(alerts)
                 /\ active'[rules[i].name] \in RefsOf(alerts', rules[i].name)
                 /\ active[rules[i].name] \notin Range(active')
                 /\ Cardinality({n \in DOMAIN active' : active'[n] \in
                        RefsOf(alerts', rules[i].name)}) = 1]_vars

\* a cycle has just triggered a rule anew while its earlier alert was still
\* active: the new alert is the active one, the earlier one is unresolved
C2_Witness ==
    /\ last.op = "check_conditions"
    /\ \E n \in last.fired :
           /\ n \in DOMAIN active
           /\ alerts[active[n]].timestamp = now
           /\ \E old \in RefsOf(alerts, n) :
                  old < active[n] /\ ~alerts[old].resolved

-----------------------------------------------------------------------------
\* a resolved alert is not changed by the step and is not active after it
C3_ResolvedIsFinal ==
    \A ref \in DOMAIN alerts :
        alerts[ref].resolved =>
            /\ ref \in DOMAIN alerts'
            /\ alerts'[ref] = alerts[ref]
            /\ ref \notin Range(active')

\* C3: a cycle that evaluates a rule false resolves the rule's active alert
\* (unresolved until then) at the cycle's time and removes it from the
\* active index; when the rule has no active alert the cycle changes
\* nothing of the rule; and a resolved alert is never changed again nor
\* active again, so it is resolved exactly once.
C3_ResolveOnceIdempotent ==
    [][/\ C3_ResolvedIsFinal
       /\ \A i \in DOMAIN rules :
              CondFalse(rules[i]) =>
                  IF rules[i].name \in DOMAIN active
                  THEN LET ref == active[rules[i].name]
                       IN  /\ ~alerts[ref].resolved
                           /\ alerts[ref].resolved_at = None
                           /\ alerts'[ref].resolved
                           /\ alerts'[ref].resolved_at = Some(now)
                           /\ rules[i].name \notin DOMAIN active'
                  ELSE RuleUntouched(rules[i].name)
       /\ (IsCycle /\ last'.fired = {} /\ DOMAIN active = {})
              => UNCHANGED <<active, history, counts, lastSent, alerts,
                             dispatchLog>>]_vars

\* a cycle has just evaluated false a rule whose alert an earlier cycle
\* had resolved: the second false evaluation
C3_Witness ==
    /\ last.op = "check_conditions"
    /\ alertingEnabled
    /\ \E i \in DOMAIN rules :
           /\ rules[i].enabled
           /\ rules[i].name \notin last.fired
           /\ rules[i].name \notin DOMAIN active
           /\ \E ref \in RefsOf(alerts, rules[i].name) :
                  /\ alerts[ref].resolved
                  /\ alerts[ref].resolved_at # None
                  /\ alerts[ref].resolved_at[1] < now

-----------------------------------------------------------------------------
\* C4: when a cycle evaluates false a rule that has an active alert, then
\* after the cycle the alert is not in the active index, the history still
\* holds it where it was, and the alert is as before except resolved =
\* true and resolved_at = the cycle's timestamp.
C4_ResolvedKeptInHistory ==
    [][\A i \in DOMAIN rules :
           CondFalse(rules[i]) /\ rules[i].name \in DOMAIN active =>
               LET ref == active[rules[i].name]
               IN  /\ rules[i].name \notin DOMAIN active'
                   /\ ref \notin Range(active')
                   /\ Len(history') >= Len(history)
                   /\ SubSeq(history', 1, Len(history)) = history
                   /\ alerts'[ref] = [alerts[ref] EXCEPT
                                         !.resolved = TRUE,
                                         !.resolved_at = Some(now)]]_vars

\* a cycle has just resolved an alert triggered at an earlier time: it is
\* in the history, not in the active index, and carries the cycle's time
C4_Witness ==
    /\ last.op = "check_conditions"
    /\ \E ref \in Range(history) :
           /\ alerts[ref].source = "canvas_monitoring"
           /\ alerts[ref].labels.rule \notin last.fired
           /\ alerts[ref].resolved
           /\ alerts[ref].resolved_at = Some(now)
           /\ alerts[ref].timestamp < now
           /\ ref \notin Range(active)

-----------------------------------------------------------------------------
\* the two health rules, and a snapshot with three failed health checks
C5_Failing == FindRule(rules, "health_check_failing")[1]
C5_Critical == FindRule(rules, "health_check_critical")[1]
C5_Three == Snapshot(3, CpuThreshold, "running")

\* C5: a rule evaluated true when it was never sent, or throttle_seconds
\* or more after it was last sent, always triggers: one new alert of the
\* rule's level, recorded and dispatched.  For health_check_failing
\* (consecutive_health_failures >= 3, WARNING, 300 s): a snapshot with
\* value 3 makes it true and health_check_critical false, and creates no
\* alert for health_check_critical; 10 s after the rule was sent it is
\* suppressed, 400 s or more after it was sent it triggers again.
C5_ThrottleExpiry ==
    [][/\ \A i \in DOMAIN rules :
              CondTrue(rules[i]) /\ ~InThrottleWindow(rules[i])
                  => TriggersOnce(rules[i])
       /\ C5_Failing.throttle_seconds = 300
       /\ C5_Failing.level = "warning"
       /\ EvaluateCondition(C5_Failing.condition, C5_Three)
       /\ ~EvaluateCondition(C5_Critical.condition, C5_Three)
       /\ (IsCycle /\ C5_Critical.name \notin last'.fired)
              => RefsOf(alerts', C5_Critical.name)
                     = RefsOf(alerts, C5_Critical.name)
       /\ (CondTrue(C5_Failing) /\ C5_Failing.name \in DOMAIN lastSent)
              => /\ now - lastSent[C5_Failing.name] = Seconds(10)
                     => RuleUntouched(C5_Failing.name)
                 /\ now - lastSent[C5_Failing.name] >= Seconds(400)
                     => TriggersOnce(C5_Failing)]_vars

\* a cycle has just triggered health_check_failing, and not
\* health_check_critical, 400 s or more after its earlier WARNING alert
C5_Witness ==
    /\ last.op = "check_conditions"
    /\ last.fired = {"health_check_failing"}
    /\ RefsOf(alerts, "health_check_critical") = {}
    /\ "health_check_failing" \in DOMAIN active
    /\ LET b == active["health_check_failing"]
       IN  /\ alerts[b].timestamp = now
           /\ alerts[b].level = "warning"
           /\ \E k \in DispatchesOf(dispatchLog, b) :
                  dispatchLog[k].delivered = <<"log">>
           /\ \E a \in RefsOf(alerts, "health_check_failing") :
                  /\ a < b
                  /\ alerts[a].level = "warning"
                  /\ alerts[b].timestamp - alerts[a].timestamp
                         >= Seconds(400)

-----------------------------------------------------------------------------
\* C6: every force_alert creates one alert (source manual, at the clock's
\* time), appends it to the history and hands it to the dispatch, over the
\* log channel when no channels are given - in every state: whatever the
\* last-sent map holds and whether alerting is globally enabled or not.
C6_ForceAlertAlways ==
    [][last'.op = "force_alert" =>
           LET ref == Len(alerts) + 1
           IN  /\ Len(alerts') = ref
               /\ SubSeq(alerts', 1, Len(alerts)) = alerts
               /\ alerts'[ref].source = "manual"
               /\ alerts'[ref].timestamp = now
               /\ history' = Append(history, ref)
               /\ Len(dispatchLog') = Len(dispatchLog) + 1
               /\ SubSeq(dispatchLog', 1, Len(dispatchLog)) = dispatchLog
               /\ dispatchLog'[Len(dispatchLog')].alert = ref
               /\ dispatchLog'[Len(dispatchLog')].channels # <<>>
               /\ \A l \in ForceLevels, c \in ForceChannels :
                      (ForceAlert(l, c) /\ (c = None \/ c = Some(<<>>)))
                          => dispatchLog'[Len(dispatchLog')].delivered
                                 = <<"log">>]_vars

\* a force_alert has just been recorded and sent to the log while
\* alerting was globally disabled and a rule was inside its throttle window
C6_Witness ==
    /\ last.op = "force_alert"
    /\ ~alertingEnabled
    /\ \E i \in DOMAIN rules : InThrottleWindow(rules[i])
    /\ history # <<>>
    /\ alerts[history[Len(history)]].source = "manual"
    /\ alerts[history[Len(history)]].timestamp = now
    /\ \E k \in DispatchesOf(dispatchLog, history[Len(history)]) :
           dispatchLog[k].delivered = <<"log">>

-----------------------------------------------------------------------------
\* vocabulary of C7: the evaluation of a condition raises; the condition
\* names a field the context does not hold, does not parse, or compares
\* two operands of different types
Raises(condition, metrics) == ~IsOk(Eval(condition, EvalContext(metrics)))

RECURSIVE Atoms(_)
Atoms(e) ==
    CASE e[1] \in {"field", "lit"} -> {e}
      [] e[1] = "cmp" -> {e[3], e[4]}
      [] e[1] \in {"and", "or"} -> Atoms(e[2]) \cup Atoms(e[3])
      [] e[1] = "not" -> Atoms(e[2])
      [] OTHER -> {}

RECURSIVE Comparisons(_)
Comparisons(e) ==
    CASE e[1] = "cmp" -> {e}
      [] e[1] \in {"and", "or"} -> Comparisons(e[2]) \cup Comparisons(e[3])
      [] e[1] = "not" -> Comparisons(e[2])
      [] OTHER -> {}

ReferencesUnknownField(e) ==
    \E a \in Atoms(e) :
        a[1] = "field" /\ a[2] \notin DOMAIN EvalContext(EmptyDict)

TypeMismatched(e) ==
    \E c \in Comparisons(e) :
        LET x == AtomValue(c[3], EvalContext(EmptyDict))
            y == AtomValue(c[4], EvalContext(EmptyDict))
        IN  IsOk(x) /\ IsOk(y) /\ x[2][1] # y[2][1]

Faulty(e) ==
    e = Malformed \/ ReferencesUnknownField(e) \/ TypeMismatched(e)

WithoutRule(ruleSeq, name) == SelectSeq(ruleSeq, LAMBDA r : r.name # name)

\* in a cycle on snapshot m, rule r counts as not triggered, its resolve
\* path runs, and the alert state after the cycle is the one the cycle
\* yields without r in the registry, with r's active alert resolved
FailsQuietly(r, m) ==
    /\ r.name \notin last'.fired
    /\ AlertState' = ResolveAlert(
           CycleResult(AlertState, WithoutRule(rules, r.name),
                       alertingEnabled, m, now),
           r.name, now)

-----------------------------------------------------------------------------
\* C8: a call of ensure_canvas_server_running whose first health probe
\* reports healthy returns true, does not call start_canvas_server, and
\* leaves the worker handle, the processes and the signals as they were.
C8_HealthyNoLaunch ==
    [][\A c \in Callers :
           /\ supLast'.op = "ensure_begin"
           /\ supLast'.caller = c
           /\ supLast'.probe = Some(TRUE)
           => /\ ensure'[c] = EnsureIdle(Some(TRUE))
              /\ ~supLast'.started
              /\ UNCHANGED <<canvas_process, canvas_process_pid, procs,
                             signals>>]_vars

\* with auto-start on, a call has just returned true on its first probe
\* while a handle of an earlier start was set, and the handle is as it was
C8_Witness ==
    /\ autoStart
    /\ supLast.op = "ensure_begin"
    /\ supLast.probe = Some(TRUE)
    /\ ensure[supLast.caller] = EnsureIdle(Some(TRUE))
    /\ canvas_process_pid # None
    /\ canvas_process_pid = supLast.handle
    /\ Len(procs) = 1

-----------------------------------------------------------------------------
\* C9: when start succeeded and every probe of the poll window failed,
\* ensure_canvas_server_running returns false and on return the worker
\* handle (canvas_process and canvas_process_pid) is absent, whatever the
\* termination signal did.
C9_HandleAbsentAfterTimeout ==
    [][\A c \in Callers :
           /\ supLast'.op = "ensure_poll"
           /\ supLast'.caller = c
           /\ supLast'.probe = Some(FALSE)
           /\ ensure[c] = EnsurePolling(PollAttempts - 1)
           => /\ ensure'[c] = EnsureIdle(Some(FALSE))
              /\ canvas_process' = None
              /\ canvas_process_pid' = None]_vars

\* the poll window has just run out, the call returned false, and the
\* handle still names the process the call had started
C9_StaleHandle ==
    /\ supLast.op = "ensure_poll"
    /\ supLast.probe = Some(FALSE)
    /\ ensure[supLast.caller] = EnsureIdle(Some(FALSE))
    /\ canvas_process # None
    /\ canvas_process_pid # None
    /\ procs[canvas_process_pid[1]] = "gone"

-----------------------------------------------------------------------------
\* C10: stop_canvas_server with no handle sends no signal and changes
\* nothing; a stop_canvas_server that follows a stop_canvas_server changes
\* nothing; _stop_process on a process that is gone (as a first
\* _stop_process that stopped it leaves it) returns "already stopped",
\* delivers no signal and leaves the process gone.
C10_StopIdempotent ==
    [][/\ (/\ supLast'.op = "stop"
           /\ (canvas_process = None \/ canvas_process_pid = None
                   \/ supLast.op = "stop"))
          => UNCHANGED <<canvas_process, canvas_process_pid, procs,
                         signals, ensure>>
       /\ (program = "cli" /\ cliLast' # None /\ cliLast'[1].was = "gone")
          => /\ cliLast'[1].outcome.kind = "already stopped"
             /\ \A i \in DOMAIN cliLast'[1].calls :
                    cliLast'[1].calls[i].result # "ok"
             /\ cliProc' = "gone"]_vars

\* a stop_canvas_server has just run with no handle set, after an earlier
\* stop had signalled the worker and cleared the handle
C10_Witness ==
    /\ supLast.op = "stop"
    /\ supLast.handle = None
    /\ canvas_process = None
    /\ canvas_process_pid = None
    /\ procs # <<>>
    /\ signals # <<>>

-----------------------------------------------------------------------------
\* C11: the globals name at most one supervised worker (canvas_process and
\* canvas_process_pid are both absent or both name the same process), and a
\* step that calls start_canvas_server while the handle names a process
\* that is still running spawns no process and leaves the handle naming it.
C11_StartWhileLiveIsNoOp ==
    [][/\ (canvas_process' = None) = (canvas_process_pid' = None)
       /\ canvas_process' = canvas_process_pid'
       /\ (/\ supLast'.started
           /\ canvas_process_pid # None
           /\ procs[canvas_process_pid[1]] = "running")
          => /\ procs' = procs
             /\ canvas_process' = canvas_process
             /\ canvas_process_pid' = canvas_process_pid]_vars

\* start_canvas_server has just run while the handle named a running
\* process: a second process was spawned, the handle names the new one, and
\* the first is still running with nothing naming it
C11_SecondWorker ==
    /\ supLast.op = "ensure_begin"
    /\ supLast.started
    /\ supLast.handle = Some(1)
    /\ canvas_process_pid = Some(2)
    /\ procs = <<"running", "running">>
    /\ signals = <<>>

-----------------------------------------------------------------------------
\* the five status messages of _stop_process
StopOutcomes ==
    {"killed", "terminated", "force killed", "already stopped",
     "failed to stop"}

\* C12: whatever the target process does, _stop_process returns one of its
\* five outcomes: "already stopped" when its last psutil call raised
\* NoSuchProcess, "failed to stop" when it raised another error, and killed,
\* terminated or force killed when it returned; and no exception leaves
\* stop_canvas_server, called on its own (as cleanup_on_exit does) or at the
\* end of the poll window, where ensure_canvas_server_running still returns
\* false.
C12_StopNeverRaises ==
    [][/\ (program = "cli" /\ cliLast' # None)
          => LET r == cliLast'[1]
                 final == r.calls[Len(r.calls)].result
             IN  /\ r.outcome.kind \in StopOutcomes
                 /\ (final = "NoSuchProcess")
                        = (r.outcome.kind = "already stopped")
                 /\ (final \notin {"ok", "NoSuchProcess"})
                        = (r.outcome.kind = "failed to stop")
                 /\ (final = "ok")
                        = (r.outcome.kind
                              \in {"killed", "terminated", "force killed"})
       /\ supLast'.raised = None
       /\ (/\ supLast'.op = "ensure_poll"
           /\ supLast'.probe = Some(FALSE)
           /\ ensure[supLast'.caller].attempt + 1 = PollAttempts)
          => ensure'[supLast'.caller] = EnsureIdle(Some(FALSE))]_vars

\* _stop_process has just returned "failed to stop": the process ignored
\* terminate, the wait timed out, and the kill was denied
C12_Witness ==
    /\ program = "cli"
    /\ cliLast # None
    /\ ~cliLast[1].force
    /\ Len(cliLast[1].calls) = 3
    /\ cliLast[1].calls[3] = Call("kill", "AccessDenied")
    /\ cliLast[1].outcome.kind = "failed to stop"
    /\ cliProc = "running"

-----------------------------------------------------------------------------
\* C13: on the graceful path _stop_process sends terminate first, then
\* waits with the target's timeout (10 s for the MCP server, 5 s for the
\* canvas server), and sends a kill only as its third call, after that wait
\* raised TimeoutExpired; when the wait returns, no kill is sent and the
\* outcome is "terminated". On the force path the only call is a kill.
C13_EscalationOrder ==
    [][(program = "cli" /\ cliLast' # None)
       => LET r == cliLast'[1]
              n == Len(r.calls)
          IN  IF r.force
              THEN /\ n = 1
                   /\ r.calls[1].call = "kill"
              ELSE /\ n \in 1..3
                   /\ r.calls[1].call = "terminate"
                   /\ n >= 2
                      => /\ r.calls[1].result = "ok"
                         /\ r.outcome.name = "MCP server"
                            => r.calls[2].call = <<"wait", 10>>
                         /\ r.outcome.name = "Canvas server"
                            => r.calls[2].call = <<"wait", 5>>
                         /\ (r.calls[2].result = "ok")
                                = (r.outcome.kind = "terminated")
                         /\ r.calls[2].result = "ok" => n = 2
                         /\ r.calls[2].result # "ok"
                            => /\ r.calls[2].result = "TimeoutExpired"
                               /\ n = 3
                   /\ n = 3 => r.calls[3].call = "kill"
                   /\ r.outcome.kind = "force killed"
                      => /\ n = 3
                         /\ r.calls[3].result = "ok"]_vars

\* the canvas server ignored terminate, the 5 s wait timed out, and the
\* kill that followed stopped it
C13_Witness ==
    /\ program = "cli"
    /\ cliLast # None
    /\ cliLast[1].was = "running"
    /\ ~cliLast[1].force
    /\ cliLast[1].calls = << Call("terminate", "ok"),
                             Call(<<"wait", 5>>, "TimeoutExpired"),
                             Call("kill", "ok") >>
    /\ cliLast[1].outcome = Outcome("Canvas server", "force killed")
    /\ cliProc = "gone"

-----------------------------------------------------------------------------
\* C14: a call of ensure_canvas_server_running makes one probe when it
\* begins and at most PollAttempts probes in its loop; it calls
\* start_canvas_server at most once, when it begins and only after an
\* unhealthy probe, and spawns at most one process; a healthy probe ends
\* the call with true in the same step; the last unhealthy probe of the
\* window ends it with false; and a call that is in the poll loop
\* eventually returns, whatever the probes answer.
C14_BoundedRetry ==
    /\ [][\A c \in Callers :
              /\ supLast'.caller = c /\ supLast'.op = "ensure_begin"
                 => /\ ensure[c].pc = "idle"
                    /\ supLast'.started
                       => /\ supLast'.probe = Some(FALSE)
                          /\ Len(procs') <= Len(procs) + 1
                    /\ ~supLast'.started => procs' = procs
                    /\ ensure'[c].pc = "poll" => ensure'[c].attempt = 0
              /\ supLast'.caller = c /\ supLast'.op = "ensure_poll"
                 => /\ ensure[c].pc = "poll"
                    /\ ensure[c].attempt + 1 <= PollAttempts
                    /\ ~supLast'.started
                    /\ procs' = procs
                    /\ ensure'[c].pc = "poll"
                       => ensure'[c].attempt = ensure[c].attempt + 1
                    /\ (/\ supLast'.probe = Some(FALSE)
                        /\ ensure[c].attempt + 1 = PollAttempts)
                       => ensure'[c] = EnsureIdle(Some(FALSE))
              /\ (/\ supLast'.caller = c
                  /\ supLast'.op \in {"ensure_begin", "ensure_poll"}
                  /\ supLast'.probe = Some(TRUE))
                 => ensure'[c] = EnsureIdle(Some(TRUE))
              /\ ensure'[c].pc = "poll"
                 => ensure'[c].attempt < PollAttempts]_vars
    /\ \A c \in Callers : (ensure[c].pc = "poll") ~> (ensure[c].pc = "idle")

\* a call has just returned false after its first probe, one start and all
\* PollAttempts probes of the window were unhealthy
C14_Witness ==
    /\ supLast.op = "ensure_poll"
    /\ supLast.probe = Some(FALSE)
    /\ ensure[supLast.caller] = EnsureIdle(Some(FALSE))
    /\ Len(procs) = 1
    /\ autoStart

-----------------------------------------------------------------------------
\* C15: when start_canvas_server fails - Popen raises, or the command it
\* launched has ended by the time the poll loop would make its first probe -
\* the call returns false without making a probe in the poll loop, and
\* leaves no handle to a worker of its own: the handle is as it was before
\* the call.
C15_StartFailureReturnsFalse ==
    [][\A c \in Callers :
           /\ (/\ supLast'.caller = c
               /\ supLast'.op = "ensure_begin"
               /\ supLast'.started
               /\ procs' = procs)
              => /\ ensure'[c] = EnsureIdle(Some(FALSE))
                 /\ canvas_process' = canvas_process
                 /\ canvas_process_pid' = canvas_process_pid
           /\ (/\ supLast'.caller = c
               /\ supLast'.op = "ensure_poll"
               /\ ensure[c].attempt = 0)
              => procs[Len(procs)] = "running"]_vars

\* the command start_canvas_server launched ended before the first probe
\* of the poll loop, and the call has made a probe in the loop and is
\* still polling
C15_PollingDeadLaunch ==
    /\ supLast.op = "ensure_poll"
    /\ supLast.probe = Some(FALSE)
    /\ ensure[supLast.caller] = EnsurePolling(1)
    /\ Len(procs) = 1
    /\ procs[1] # "running"
    /\ canvas_process_pid = Some(1)
    /\ signals = <<>>

-----------------------------------------------------------------------------
\* C16: every probe a call of ensure_canvas_server_running makes yields a
\* boolean, which is true exactly when the endpoint answers the GET with
\* status 200 within the timeout; for another status, a refused connection
\* or no answer within the timeout it is false, and nothing is raised.
C16_ProbeIsTotal ==
    [][supLast'.op \in {"ensure_begin", "ensure_poll"}
       => /\ supLast'.probe # None
          /\ supLast'.probe[1] \in BOOLEAN
          /\ supLast'.probe[1]
                 = (endpoint.kind = "responds" /\ endpoint.status = 200)]_vars

\* a probe of the poll loop has just found an endpoint that answers with a
\* 2xx status other than 200, and reported it unhealthy
C16_Witness ==
    /\ supLast.op = "ensure_poll"
    /\ endpoint = Responds(204)
    /\ supLast.probe = Some(FALSE)
    /\ ensure[supLast.caller].pc = "poll"

-----------------------------------------------------------------------------
\* the tasks inside a critical section that spans an await: _trigger_alert
\* between its throttle check and the end of its dispatch
InCriticalSection == {t \in Tasks : tasks[t].pc = "send"}

\* C17: with check_conditions cycles and force_alert calls interleaved at
\* their awaits, at most one task is inside a critical section and it is
\* the one that holds the lock; the step in which a task stores an alert
\* for a rule is the step in which it checked the throttle, on the state
\* as it was before the step, and it sets the active alert, the history,
\* the count and lastSent of the rule together; and while a task is inside
\* its critical section no step changes the active alerts, the history,
\* the counts or lastSent, and no other task reads them.
C17_TriggerIsAtomic ==
    [][/\ Cardinality(InCriticalSection) <= 1
       /\ \A t \in Tasks : (lock = Some(t)) = (t \in InCriticalSection)
       /\ \A t \in Tasks :
              (tasks[t].pc = "lock" /\ tasks'[t].pc = "send")
              => LET name == rules[tasks[t].i].name
                     ref == Len(alerts')
                 IN  /\ lock = None
                     /\ lock' = Some(t)
                     /\ ~ShouldThrottleAlert(lastSent, rules, name,
                                             tasks[t].ts)
                     /\ ref = Len(alerts) + 1
                     /\ alerts'[ref].labels.rule = name
                     /\ active' = DictSet(active, name, ref)
                     /\ history' = Append(history, ref)
                     /\ counts' = DictSet(counts, name,
                                          DictGet(counts, name, 0) + 1)
                     /\ lastSent' = DictSet(lastSent, name, tasks[t].ts)
       /\ \A t \in Tasks :
              (lock = Some(t) /\ tasks'[t].pc = "send")
              => /\ UNCHANGED <<active, history, counts, lastSent, access>>
                 /\ lock' = lock]_vars

\* t1 is inside _trigger_alert's lock, dispatching the alert it stored,
\* while t2 waits at the lock to trigger the same rule and a force_alert of
\* an earlier task has been appended to the history
C17_Witness ==
    /\ tasks["t1"].pc = "send"
    /\ tasks["t2"].pc = "lock"
    /\ tasks["t2"].i = tasks["t1"].i
    /\ EvaluateCondition(rules[tasks["t2"].i].condition, tasks["t2"].m[1])
    /\ lock = Some("t1")
    /\ Len(alerts) = 2
    /\ alerts[1].source = "manual"
    /\ history = <<1, 2>>

-----------------------------------------------------------------------------
\* C18: every access to the active alerts, the history, the counts or
\* lastSent - by _trigger_alert, _resolve_alert, force_alert,
\* get_active_alerts, get_alert_history, get_alert_statistics and
\* clear_alert_history alike - is made by whoever holds the lock at that
\* moment.
C18_AccessUnderLock ==
    access # None => access[1].holder = Some(access[1].by)

\* clear_alert_history has run while t1 was suspended in _trigger_alert's
\* lock: the alert t1 stored is active, and is in neither the history nor
\* the counts
C18_ClearedDuringDispatch ==
    /\ access # None
    /\ access[1].op = "clear_alert_history"
    /\ access[1].holder = Some("t1")
    /\ tasks["t1"].pc = "send"
    /\ active # EmptyDict
    /\ history = <<>>
    /\ counts = EmptyDict

-----------------------------------------------------------------------------
\* C19: a cycle of check_conditions that finds alerting globally disabled
\* evaluates no rule and changes nothing: no alert is created or resolved,
\* nothing is dispatched, and the active alerts, the history, the counts
\* and lastSent stay as they are.  The flag is read by every cycle: one
\* that finds it enabled evaluates every enabled rule on its snapshot,
\* triggers each rule that is true and outside its throttle window, and
\* resolves the active alert of each rule that is false.
C19_DisabledCycleIsNoOp ==
    [][IsCycle =>
           /\ ~alertingEnabled
              => /\ last'.fired = {}
                 /\ UNCHANGED <<active, history, counts, lastSent, alerts,
                                dispatchLog>>
           /\ alertingEnabled
              => /\ \E m \in Snapshots :
                        last'.fired =
                            {rules[i].name : i \in {j \in DOMAIN rules :
                                /\ rules[j].enabled
                                /\ EvaluateCondition(rules[j].condition, m)}}
                 /\ \A i \in DOMAIN rules :
                        rules[i].enabled
                        => /\ (/\ rules[i].name \in last'.fired
                               /\ ~InThrottleWindow(rules[i]))
                              => TriggersOnce(rules[i])
                           /\ (/\ rules[i].name \notin last'.fired
                               /\ rules[i].name \in DOMAIN active)
                              => /\ rules[i].name \notin DOMAIN active'
                                 /\ alerts'[active[rules[i].name]].resolved]_vars

\* a cycle has just run with alerting disabled: the alert that is active
\* was left active and unresolved, although its rule's throttle window is
\* over
C19_Witness ==
    /\ last.op = "check_conditions"
    /\ ~alertingEnabled
    /\ last.fired = {}
    /\ \E i \in DOMAIN rules :
           /\ rules[i].enabled
           /\ rules[i].name \in DOMAIN active
           /\ ~alerts[active[rules[i].name]].resolved
           /\ ~InThrottleWindow(rules[i])

-----------------------------------------------------------------------------
\* C20: in a cycle of check_conditions in which a rule raises - the
\* evaluation of its condition, or _trigger_alert, raises for it - the
\* error is caught: a rule whose trigger raised is left as it was, one
\* whose evaluation raised goes the resolve path, and every other enabled
\* rule is evaluated once, in registry order, and triggers or resolves as
\* it does in a cycle without the raising rule: it triggers once when true
\* and outside its throttle window, and its active alert is resolved when
\* false.
C20_RuleErrorIsIsolated ==
    [][IsCycle =>
           \A m \in Snapshots : CheckConditions(m) =>
               \A i \in DOMAIN rules :
                   (/\ alertingEnabled
                    /\ rules[i].enabled
                    /\ \/ RuleRaises(AlertState, rules, rules[i], m)
                       \/ Raises(rules[i].condition, m))
                   => /\ RuleRaises(AlertState, rules, rules[i], m)
                         => /\ RuleUntouched(rules[i].name)
                            /\ AlertState'
                                   = CycleResult(
                                         AlertState,
                                         WithoutRule(rules, rules[i].name),
                                         alertingEnabled, m, now)
                      /\ Raises(rules[i].condition, m)
                         => FailsQuietly(rules[i], m)
                      /\ \A k \in DOMAIN rules :
                             (k # i /\ rules[k].enabled)
                             => /\ (/\ rules[k].name \in last'.fired
                                    /\ ~InThrottleWindow(rules[k]))
                                   => TriggersOnce(rules[k])
                                /\ (/\ rules[k].name \notin last'.fired
                                    /\ rules[k].name \in DOMAIN active)
                                   => /\ rules[k].name \notin DOMAIN active'
                                      /\ alerts'[active[rules[k].name]].resolved]_vars

\* a cycle has just run in which the first rule of the registry was true
\* and raised in its throttle check (its only alert is older than the
\* cycle), and a rule after it triggered in the same cycle
C20_Witness ==
    /\ last.op = "check_conditions"
    /\ alertingEnabled
    /\ rules[1].throttle_seconds = NotANumber
    /\ rules[1].name \in last.fired
    /\ rules[1].name \in DOMAIN lastSent
    /\ lastSent[rules[1].name] < now
    /\ \E k \in DOMAIN rules :
           /\ k > 1
           /\ rules[k].name \in last.fired
           /\ rules[k].name \in DOMAIN active
           /\ alerts[active[rules[k].name]].timestamp = now
           /\ alerts[active[rules[k].name]].timestamp
                  > lastSent[rules[1].name]


-----------------------------------------------------------------------------
\* C21: when the sender of one channel of a triggered alert raises, the
\* senders of all the other channels of the alert that have one are still
\* called, in the order of the rule's channels, and the trigger completes:
\* the alert is the rule's active alert, is in the history, is counted and
\* its time is the rule's last-sent time.
C21_ChannelIsolation ==
    [][\A i \in DOMAIN rules :
           CondTrue(rules[i]) /\ ~InThrottleWindow(rules[i])
               => /\ TriggersOnce(rules[i])
                  /\ \A k \in DOMAIN dispatchLog' :
                         (k > Len(dispatchLog)
                          /\ dispatchLog'[k].alert = active'[rules[i].name])
                             => LET d == dispatchLog'[k]
                                IN  /\ d.attempted
                                         = SelectSeq(rules[i].channels,
                                               LAMBDA c : c \in Senders)
                                    /\ d.failed
                                         = SelectSeq(d.attempted,
                                               LAMBDA c : c \in down)
                                    /\ d.delivered
                                         = SelectSeq(d.attempted,
                                               LAMBDA c : c \notin down)]_vars

\* a cycle has just triggered the rule with three channels while the
\* webhook sender raises: the webhook failed, the log was delivered, and
\* the alert is recorded
C21_Witness ==
    /\ last.op = "check_conditions"
    /\ "custom_rule" \in last.fired
    /\ "webhook" \in down /\ "log" \notin down
    /\ "custom_rule" \in DOMAIN active
    /\ \E k \in DispatchesOf(dispatchLog, active["custom_rule"]) :
           /\ dispatchLog[k].failed = <<"webhook">>
           /\ dispatchLog[k].delivered = <<"log">>
    /\ active["custom_rule"] \in Range(history)
    /\ counts["custom_rule"] = 1
    /\ lastSent["custom_rule"] = now


-----------------------------------------------------------------------------
\* C22: a rule whose throttle_seconds is 0 notifies on every cycle that
\* evaluates its condition true while the rule has no active alert when the
\* cycle begins, however short the time since its last trigger: the cycle
\* creates one alert for it, records it and dispatches it on the rule's
\* channels.
C22_ZeroThrottleNotifies ==
    [][\A i \in DOMAIN rules :
           (/\ rules[i].throttle_seconds = 0
            /\ CondTrue(rules[i])
            /\ rules[i].name \notin DOMAIN active)
               => /\ ~InThrottleWindow(rules[i])
                  /\ TriggersOnce(rules[i])
                  /\ Len(dispatchLog') > Len(dispatchLog)]_vars

\* the throttle-0 rule has triggered, was resolved, and a cycle has just
\* triggered it again with no time passed since its first trigger
C22_Witness ==
    /\ last.op = "check_conditions"
    /\ "custom_rule" \in last.fired
    /\ counts["custom_rule"] = 2
    /\ \E a, b \in RefsOf(alerts, "custom_rule") :
           /\ a < b
           /\ alerts[a].resolved
           /\ active["custom_rule"] = b
           /\ alerts[a].timestamp = alerts[b].timestamp
           /\ \E k \in DispatchesOf(dispatchLog, b) :
                  dispatchLog[k].attempted = <<"webhook", "log">>


-----------------------------------------------------------------------------
\* C23: no two distinct alerts in the history have the same id, whatever
\* rule triggers and force_alert calls created them.
C23_IdsUnique ==
    \A i, j \in DOMAIN history :
        i # j => alerts[history[i]].id # alerts[history[j]].id

\* two force_alert calls half a second apart, within one whole second, have
\* left two distinct alerts in the history that carry one id
C23_SameSecondSameId ==
    \E i, j \in DOMAIN history :
        /\ i < j
        /\ history[i] # history[j]
        /\ alerts[history[i]].source = "manual"
        /\ alerts[history[j]].source = "manual"
        /\ alerts[history[i]].timestamp < alerts[history[j]].timestamp
        /\ alerts[history[i]].id = alerts[history[j]].id


-----------------------------------------------------------------------------
\* every alert ever created is in the history
C24_AllCreatedInHistory ==
    /\ \A ref \in DOMAIN alerts : ref \in Range(history)
    /\ \A name \in DOMAIN active : active[name] \in Range(history)

\* C24: the history is append-only in creation order until
\* clear_alert_history is called: every other operation keeps the history's
\* entries in place and appends the alerts it creates, in the order of
\* their creation, so an active alert that is in the history stays in it;
\* clear_alert_history empties the history and the counts and leaves the
\* alerts themselves and the active index as they were.  So the history
\* holds, in creation order, exactly the alerts created since it was last
\* cleared.
C24_RetainedUntilCleared ==
    [][/\ \/ /\ history' = <<>>
             /\ counts' = EmptyDict
             /\ alerts' = alerts
             /\ active' = active
             /\ lastSent' = lastSent
          \/ /\ Len(history') >= Len(history)
             /\ SubSeq(history', 1, Len(history)) = history
             /\ \A ref \in DOMAIN alerts' :
                    ref > Len(alerts) => ref \in Range(history')
             /\ (\A name \in DOMAIN active : active[name] \in Range(history))
                    => (\A name \in DOMAIN active' :
                            active'[name] \in Range(history'))
       /\ \A i \in DOMAIN history' :
              history'[i] = Len(alerts') - Len(history') + i]_vars

\* clear_alert_history has been called while a rule's alert was active: the
\* alert is still active and unresolved, and is not in the history
C24_Witness ==
    /\ last.op = "other"
    /\ history = <<>>
    /\ counts = EmptyDict
    /\ \E name \in DOMAIN active :
           /\ ~alerts[active[name]].resolved
           /\ lastSent[name] = alerts[active[name]].timestamp


-----------------------------------------------------------------------------
\* the alert state and the clock are as they were before the step
AlertStateKept ==
    UNCHANGED <<active, history, counts, lastSent, alerts, dispatchLog,
                alertingEnabled, now, clockSteps>>

\* the registry after the step is the registry before it, but for the
\* enabled flag of the rules named `name`, which is `flag`
OnlyFlagOf(name, flag) ==
    /\ Len(rules') = Len(rules)
    /\ \A i \in DOMAIN rules :
           rules'[i] = IF rules[i].name = name
                       THEN [rules[i] EXCEPT !.enabled = flag]
                       ELSE rules[i]

\* no two rules of the registry have the same name
NamesUnique(ruleSeq) ==
    \A i, j \in DOMAIN ruleSeq : ruleSeq[i].name = ruleSeq[j].name => i = j

\* C25: enable_rule(name) and disable_rule(name) return true exactly when
\* the registry has a rule of that name.  Then that rule's enabled flag is
\* true / false afterwards and nothing else has changed: the other rules,
\* every rule's name, condition, level, channels and throttle, the
\* uniqueness of the names, and the whole alert state.  For a name no rule
\* has, nothing changes at all.
C25_ToggleFrame ==
    [][\A n \in ToggleNames :
           /\ EnableRule(n)
                  => /\ last'.returned
                            = Some(\E i \in DOMAIN rules : rules[i].name = n)
                     /\ OnlyFlagOf(n, TRUE)
                     /\ AlertStateKept
                     /\ NamesUnique(rules) => NamesUnique(rules')
                     /\ last'.returned = Some(FALSE) => rules' = rules
           /\ DisableRule(n)
                  => /\ last'.returned
                            = Some(\E i \in DOMAIN rules : rules[i].name = n)
                     /\ OnlyFlagOf(n, FALSE)
                     /\ AlertStateKept
                     /\ NamesUnique(rules) => NamesUnique(rules')
                     /\ last'.returned = Some(FALSE) => rules' = rules]_vars

\* disable_rule has just returned true for the rule with three channels
\* while its alert was active: the rule is disabled, its channels and its
\* throttle are as they were and its alert is still active
C25_Witness ==
    /\ last.op = "disable_rule"
    /\ last.returned = Some(TRUE)
    /\ "custom_rule" \in DOMAIN active
    /\ \E i \in DOMAIN rules :
           /\ rules[i].name = "custom_rule"
           /\ ~rules[i].enabled
           /\ rules[i].channels = <<"webhook", "email", "log">>
           /\ rules[i].throttle_seconds = 0
    /\ \E i \in DOMAIN rules :
           rules[i].name # "custom_rule" /\ rules[i].enabled


-----------------------------------------------------------------------------
\* the condition holds a method call, an attribute access or an assignment
RECURSIVE UsesCode(_)
UsesCode(e) ==
    CASE e[1] \in {"attr", "call", "assign"} -> TRUE
      [] e[1] = "cmp" -> UsesCode(e[3]) \/ UsesCode(e[4])
      [] e[1] \in {"and", "or"} -> UsesCode(e[2]) \/ UsesCode(e[3])
      [] e[1] = "not" -> UsesCode(e[2])
      [] OTHER -> FALSE

\* C26: a condition that holds a function call, an attribute access
\* outside the whitelisted fields or an assignment is never executed: it
\* is rejected and read as false, so no cycle evaluates such a rule true
\* and no alert is ever created for it.
C26_CodeIsRejected ==
    [][\A i \in DOMAIN rules :
           (IsCycle /\ UsesCode(rules[i].condition))
               => /\ rules[i].name \notin last'.fired
                  /\ RefsOf(alerts', rules[i].name) = {}]_vars

\* a cycle has called circuit_state.upper() for the custom rule, found the
\* result equal to "CLOSED" and triggered the rule
C26_CallWasExecuted ==
    /\ last.op = "check_conditions"
    /\ "custom_rule" \in last.fired
    /\ "custom_rule" \in DOMAIN active
    /\ \E i \in DOMAIN rules :
           /\ rules[i].name = "custom_rule"
           /\ rules[i].condition
                  = Cmp("==", MethodCall(Field("circuit_state"), "upper"),
                        Lit(Str("CLOSED")))


-----------------------------------------------------------------------------
\* C27: a trigger that is not throttled stores the new alert in one step
\* under the lock, before its dispatch begins: the step makes it the rule's
\* active alert, appends it to the history, adds exactly 1 to the rule's
\* count and sets the rule's lastSent to the cycle's timestamp, and
\* dispatches nothing.  So in every step that dispatches a rule's alert the
\* alert was the rule's active alert, was in the history, was counted and
\* had set lastSent already before the step, and the dispatching task held
\* the lock.
C27_StoredBeforeDispatch ==
    [][/\ \A t \in Tasks :
              (/\ tasks[t].pc = "lock" /\ tasks'[t] # tasks[t]
               /\ Len(alerts') > Len(alerts))
              => LET name == rules[tasks[t].i].name
                     ref == Len(alerts')
                 IN  /\ lock' = Some(t)
                     /\ active' = DictSet(active, name, ref)
                     /\ history' = Append(history, ref)
                     /\ counts'[name] = DictGet(counts, name, 0) + 1
                     /\ lastSent'[name] = tasks[t].ts
                     /\ alerts'[ref].timestamp = tasks[t].ts
                     /\ dispatchLog' = dispatchLog
       /\ \A k \in DOMAIN dispatchLog' :
              (k > Len(dispatchLog)
               /\ alerts'[dispatchLog'[k].alert].source = "canvas_monitoring")
              => LET ref == dispatchLog'[k].alert
                     name == alerts'[ref].labels.rule
                 IN  /\ ref \in DOMAIN alerts
                     /\ name \in DOMAIN active /\ active[name] = ref
                     /\ ref \in Range(history)
                     /\ name \in DOMAIN counts /\ counts[name] >= 1
                     /\ lastSent[name] = alerts[ref].timestamp
                     /\ \E t \in Tasks : lock = Some(t) /\ tasks[t].ref = ref
                     /\ UNCHANGED <<active, history, counts, lastSent,
                                    alerts>>]_vars

\* t1 has stored and dispatched the alert of a rule; the alert is the
\* rule's active alert and the lock is free again
C27_Witness ==
    /\ lock = None
    /\ tasks["t1"].pc = "lock"
    /\ \E k \in DOMAIN dispatchLog :
           LET ref == dispatchLog[k].alert
           IN  /\ alerts[ref].source = "canvas_monitoring"
               /\ active[alerts[ref].labels.rule] = ref
               /\ ref \in Range(history)
               /\ rules[tasks["t1"].i - 1].name = alerts[ref].labels.rule


-----------------------------------------------------------------------------
\* the step sets or changes the last-sent time of rule `name`
LastSentChanges(name) ==
    /\ name \in DOMAIN lastSent'
    /\ name \in DOMAIN lastSent => lastSent'[name] # lastSent[name]

\* C28: throttling is kept per rule name and outlives the resolution of
\* the rule's alert.  A rule's last-sent time is set only by a trigger of
\* that very rule, and a rule that was never sent triggers whenever a cycle
\* evaluates it true, whatever other rules triggered before; a cycle that
\* evaluates a rule false leaves its last-sent time alone; and a rule whose
\* alert has been resolved and whose condition is true again less than
\* throttle_seconds after its last trigger gets no new alert and no
\* dispatch: the cycle ends with the condition true and no active alert for
\* the rule.
C28_ThrottleSurvivesResolve ==
    [][\A i \in DOMAIN rules :
           LET r == rules[i]
           IN  /\ LastSentChanges(r.name)
                      => CondTrue(r) /\ ~InThrottleWindow(r)
               /\ (CondTrue(r) /\ r.name \notin DOMAIN lastSent)
                      => TriggersOnce(r)
               /\ CondFalse(r)
                      => /\ (r.name \in DOMAIN lastSent')
                                = (r.name \in DOMAIN lastSent)
                         /\ r.name \in DOMAIN lastSent
                                => lastSent'[r.name] = lastSent[r.name]
               /\ (/\ CondTrue(r) /\ InThrottleWindow(r)
                   /\ r.name \notin DOMAIN active)
                      => /\ RuleUntouched(r.name)
                         /\ r.name \notin DOMAIN active'
                         /\ Len(alerts') - Len(alerts)
                                = Cardinality({j \in DOMAIN rules :
                                      /\ CondTrue(rules[j])
                                      /\ ~InThrottleWindow(rules[j])})]_vars

\* a rule triggered, another rule triggered too, the first rule's alert
\* was resolved, and a cycle inside the first rule's throttle window has
\* just evaluated it true again: it has no active alert and its only alert
\* is the resolved one
C28_Witness ==
    /\ last.op = "check_conditions"
    /\ \E i \in DOMAIN rules :
           LET name == rules[i].name
           IN  /\ name \in last.fired
               /\ name \notin DOMAIN active
               /\ name \in DOMAIN lastSent
               /\ now - lastSent[name] < Seconds(rules[i].throttle_seconds)
               /\ now > lastSent[name]
               /\ RefsOf(alerts, name) # {}
               /\ \A ref \in RefsOf(alerts, name) : alerts[ref].resolved
               /\ \E other \in DOMAIN lastSent : other # name


-----------------------------------------------------------------------------
\* every entry of the active index holds an unresolved alert of the rule it
\* is filed under
ActiveIndexSound ==
    \A name \in DOMAIN active :
        /\ active[name] \in DOMAIN alerts
        /\ ~alerts[active[name]].resolved
        /\ alerts[active[name]].resolved_at = None
        /\ alerts[active[name]].labels.rule = name

\* after every cycle of check_conditions, every alert in the active index
\* belongs to a rule whose condition is true on the cycle's snapshot
C29_ActiveMeansTrue ==
    [][\A m \in Snapshots :
           CheckConditions(m)
               => \A name \in DOMAIN active' :
                      \E i \in DOMAIN rules :
                          /\ rules[i].name = name
                          /\ EvaluateCondition(rules[i].condition, m)]_vars

\* C29: in every reachable state each entry (name -> alert) of the active
\* index has an alert that is not resolved, has no resolution time and
\* carries the name as its `rule` label; and after a cycle of
\* check_conditions that ran with alerting enabled, every alert still in
\* the active index belongs to a rule that is disabled, and was not
\* touched by the cycle, or to an enabled rule whose condition the cycle
\* evaluated true.
C29_ActiveIndexInvariant ==
    [][/\ ActiveIndexSound'
       /\ (IsCycle /\ alertingEnabled)
              => \A name \in DOMAIN active' :
                     \E i \in DOMAIN rules :
                         /\ rules[i].name = name
                         /\ \/ name \in last'.fired
                            \/ /\ ~rules[i].enabled
                               /\ name \in DOMAIN active
                               /\ active'[name] = active[name]]_vars

\* a cycle with alerting enabled has just evaluated another rule true
\* while a disabled rule, which the cycle did not evaluate, still has its
\* unresolved alert in the active index
C29_Witness ==
    /\ last.op = "check_conditions"
    /\ alertingEnabled
    /\ last.fired # {}
    /\ \E i \in DOMAIN rules :
           /\ ~rules[i].enabled
           /\ rules[i].name \in DOMAIN active
           /\ rules[i].name \notin last.fired
           /\ ~alerts[active[rules[i].name]].resolved


-----------------------------------------------------------------------------
\* C30: a cycle of check_conditions passes over every disabled rule: it
\* neither triggers nor resolves it, so the rule's active alert, its count,
\* its last-sent time, its alerts and their dispatches are after the cycle
\* what they were before, whatever the snapshot.  disable_rule and
\* enable_rule themselves leave the last-sent times, the counts and the
\* active alerts alone, so a rule that is enabled again is throttled from
\* the last-sent time it had when it was disabled: a cycle that evaluates
\* it true inside that window leaves it untouched, one outside the window
\* triggers it.
C30_DisabledRuleUntouched ==
    [][\A i \in DOMAIN rules :
           LET r == rules[i]
           IN  /\ (IsCycle /\ ~r.enabled)
                      => /\ RuleUntouched(r.name)
                         /\ r.name \notin last'.fired
               /\ last'.op \in {"enable_rule", "disable_rule"}
                      => /\ UNCHANGED <<active, history, counts, lastSent,
                                        alerts, dispatchLog>>
                         /\ rules'[i].enabled # r.enabled
                                => /\ last'.returned = Some(TRUE)
                                   /\ rules'[i].enabled
                                          = (last'.op = "enable_rule")
               /\ (CondTrue(r) /\ r.name \in DOMAIN lastSent)
                      => IF now - lastSent[r.name]
                                < Seconds(r.throttle_seconds)
                         THEN RuleUntouched(r.name)
                         ELSE TriggersOnce(r)]_vars

\* a cycle has just evaluated health_check_critical true, so the snapshot
\* has at least five failures, while health_check_failing is disabled and
\* past its throttle window: its alert of the earlier trigger is still the
\* active one, unresolved, and its last-sent time is the time of that
\* trigger
C30_Witness ==
    /\ last.op = "check_conditions"
    /\ "health_check_critical" \in last.fired
    /\ \E i \in DOMAIN rules :
           /\ rules[i].name = "health_check_failing"
           /\ ~rules[i].enabled
           /\ "health_check_failing" \in DOMAIN active
           /\ ~alerts[active["health_check_failing"]].resolved
           /\ lastSent["health_check_failing"]
                  = alerts[active["health_check_failing"]].timestamp
           /\ now - lastSent["health_check_failing"]
                  >= Seconds(rules[i].throttle_seconds)
           /\ counts["health_check_failing"] = 1


-----------------------------------------------------------------------------
\* the last n elements of a sequence, or all of it when it has fewer
LastN(seq, n) ==
    IF n >= Len(seq) THEN seq ELSE SubSeq(seq, Len(seq) - n + 1, Len(seq))

\* for every limit >= 0, get_alert_history(limit) returns the most recent
\* min(limit, |history|) alerts, so at most `limit` of them
C31_AtMostLimit ==
    [][\A n \in 0..3 :
           CallReader("get_alert_history", Some(n))
               => /\ Len(last'.returned[1].elems) <= n
                  /\ last'.returned[1].elems = LastN(history, n)]_vars

\* C31: for every limit >= 1 and every history, get_alert_history(limit)
\* returns the most recent min(limit, |history|) alerts in their original
\* order, so at most `limit` of them; with no limit, and with the limit 0,
\* it returns the whole history.  The list it returns is a new list: the
\* call leaves the manager's history as it is, and so does a caller that
\* removes elements from the returned list.
C31_BoundedHistoryQuery ==
    [][/\ \A l \in Limits :
              CallReader("get_alert_history", l)
                  => /\ last'.returned[1].elems
                            = IF l = None \/ l = Some(0) THEN history
                              ELSE LastN(history, l[1])
                     /\ l # None /\ l[1] >= 1
                            => Len(last'.returned[1].elems) <= l[1]
                     /\ ~last'.returned[1].own
                     /\ history' = history
       /\ CallerMutatesList
              => /\ history' = history
                 /\ Len(last'.returned[1].elems)
                        = Len(last.returned[1].elems) - 1]_vars

\* get_alert_history has just returned the later one of the two alerts of
\* the history
C31_Witness ==
    /\ last.op = "get_alert_history"
    /\ Len(history) = 2
    /\ last.returned[1].elems = <<history[2]>>
    /\ ~last.returned[1].own


-----------------------------------------------------------------------------
\* the snapshot with every field it lacks set to the field's default: 0
\* for the numbers, "closed" for the circuit state, "unknown" for the
\* process status
WithDefaults(m) ==
    [consecutive_health_failures |->
         IF "consecutive_health_failures" \in DOMAIN m
         THEN m["consecutive_health_failures"] ELSE Num(0),
     circuit_state |->
         IF "circuit_state" \in DOMAIN m THEN m["circuit_state"]
         ELSE Str("closed"),
     cpu_percent |->
         IF "cpu_percent" \in DOMAIN m THEN m["cpu_percent"] ELSE Num(0),
     memory_percent |->
         IF "memory_percent" \in DOMAIN m THEN m["memory_percent"]
         ELSE Num(0),
     process_status |->
         IF "process_status" \in DOMAIN m THEN m["process_status"]
         ELSE Str("unknown")]

\* the step leaves the alert state that a cycle on snapshot m yields
CycleAsOn(m) ==
    [active |-> active', history |-> history', counts |-> counts',
     lastSent |-> lastSent', alerts |-> alerts', dispatchLog |-> dispatchLog']
        = CycleResult(AlertState, rules, alertingEnabled, m, now)

\* every alert the step creates for a rule whose template has a
\* placeholder that cannot be resolved carries the raw template as its
\* message, and is recorded like any other
RawTemplateKept ==
    \A i \in DOMAIN rules :
        \A ref \in RefsOf(alerts', rules[i].name) \ DOMAIN alerts :
            /\ (\E k \in DOMAIN rules[i].message_template :
                    rules[i].message_template[k] \notin FormatContext)
                   => alerts'[ref].message
                          = <<"raw", rules[i].message_template>>
            /\ active'[rules[i].name] = ref
            /\ ref \in Range(history')

\* the step creates no alert for a built-in rule
NoBuiltinTriggers ==
    \A name \in RuleNames : RefsOf(alerts', name) = RefsOf(alerts, name)

\* after the step no enabled built-in rule has an active alert
EnabledBuiltinsResolved ==
    \A i \in DOMAIN rules :
        (rules[i].enabled /\ rules[i].name \in RuleNames)
            => /\ rules[i].name \notin DOMAIN active'
               /\ \A ref \in RefsOf(alerts, rules[i].name) :
                      alerts'[ref].resolved
                          = (alerts[ref].resolved
                             \/ (rules[i].name \in DOMAIN active
                                 /\ active[rules[i].name] = ref))

\* every cycle on a snapshot that lacks a field is the cycle on the
\* snapshot with the defaults, keeps a raw template as the message, and on
\* the empty snapshot triggers no built-in rule and resolves every active
\* alert of an enabled rule
C32_MissingFieldsAlwaysResolve ==
    [][\A m \in PartialSnapshots :
           (IsCycle /\ CheckConditions(m))
               => /\ CycleAsOn(WithDefaults(m))
                  /\ RawTemplateKept
                  /\ m = EmptyDict
                         => NoBuiltinTriggers /\ EnabledBuiltinsResolved]_vars

\* C32: a cycle of check_conditions on a snapshot that lacks a field leaves
\* the alert state that the cycle on the same snapshot with the field set
\* to its default leaves (0 for a number, "closed" for circuit_state,
\* "unknown" for process_status), and never fails; a rule whose message
\* template has a placeholder that cannot be resolved is triggered like
\* any other, with the raw template as the alert's message; and a cycle on
\* the empty snapshot triggers none of the built-in rules and, when
\* alerting is enabled, resolves every active alert of an enabled built-in
\* rule.
C32_MissingFieldsDefault ==
    [][\A m \in PartialSnapshots :
           (IsCycle /\ CheckConditions(m))
               => /\ CycleAsOn(WithDefaults(m))
                  /\ RawTemplateKept
                  /\ m = EmptyDict
                         => /\ NoBuiltinTriggers
                            /\ alertingEnabled => EnabledBuiltinsResolved]_vars

\* a cycle on a snapshot without process_status has triggered the custom
\* rule, whose condition is true of the default "unknown"; the alert's
\* message is the raw template, and canvas_process_died has no alert
C32_Witness ==
    /\ last.op = "check_conditions"
    /\ "custom_rule" \in last.fired
    /\ "custom_rule" \in DOMAIN active
    /\ alerts[active["custom_rule"]].message
           = <<"raw", <<"cpu_percent", "queue_depth">>>>
    /\ RefsOf(alerts, "canvas_process_died") = {}
    /\ \E ref \in RefsOf(alerts, "health_check_failing") :
           alerts[ref].resolved


-----------------------------------------------------------------------------
\* cli.py, _serve_http: the foreground server and its shutdown.  The
\* supervisor's and the process manager's stop() are coroutines of modules
\* outside this source tree; each is a begin and an end here.

Signums == {"SIGINT", "SIGTERM"}

\* where the interpreter is when the Python-level signal handler runs: in the
\* event loop's own code, or inside a step of the run_with_monitoring task
HandlerSites == {"loop", "coroutine"}

StopTasks == {"sup", "pm"}

ServeLog(event) == [serve EXCEPT !.log = Append(@, event)]

\* asyncio.run's _cancel_all_tasks: a task that never ran is cancelled before
\* its first step, so its coroutine body is never executed
CancelPending(state) == IF state = "pending" THEN "cancelled" ELSE state

\* asyncio.create_task without await: the coroutine is scheduled, not run
CreateTask(state) == "pending"

\* _serve_http(monitoring) is entered and asyncio.run starts the coroutine
ServeHttp(monitoring) ==
    /\ program = "cli"
    /\ serve.pc = "idle"
    /\ serve' = [serve EXCEPT !.pc = IF monitoring THEN "starting"
                                      ELSE "serving",
                              !.monitoring = monitoring]
    /\ UNCHANGED <<cliProc, cliLast, program, alertVars, supVars, envVars, svcVars,
                   taskVars>>

\* await supervisor.start() returns; main() is awaited inside try/finally
ServeStarted ==
    /\ program = "cli"
    /\ serve.pc = "starting"
    /\ serve' = [serve EXCEPT !.pc = "serving"]
    /\ UNCHANGED <<cliProc, cliLast, program, alertVars, supVars, envVars, svcVars,
                   taskVars>>

\* signal_handler: two tasks are created and sys.exit(0) raises SystemExit
\* where the handler ran.  In the loop's code the exception leaves
\* run_until_complete at once and asyncio.run cancels every task; inside the
\* coroutine it unwinds into the finally clause, whose await keeps the loop
\* running until supervisor.stop() returns.
SignalHandler(signum, site) ==
    /\ program = "cli"
    /\ serve.monitoring
    /\ serve.pc \in {"starting", "serving"}
    /\ LET created == [ServeLog(<<"signal", signum>>) EXCEPT
                           !.sup = CreateTask(@), !.pm = CreateTask(@)]
           inTry == serve.pc = "serving"
           entered == IF inTry
                      THEN [created EXCEPT
                                !.fin = "started",
                                !.log = Append(@, <<"fin", "begin">>)]
                      ELSE created
       IN  serve' =
               IF inTry /\ site = "coroutine"
               THEN [entered EXCEPT !.pc = "unwinding"]
               ELSE [entered EXCEPT !.pc = "cancelling",
                                    !.sup = CancelPending(@),
                                    !.pm = CancelPending(@)]
    /\ UNCHANGED <<cliProc, cliLast, program, alertVars, supVars, envVars, svcVars,
                   taskVars>>

\* the loop runs the first step of a created task
StopTaskRuns(t) ==
    /\ program = "cli"
    /\ serve.pc = "unwinding"
    /\ serve[t] = "pending"
    /\ serve' = [ServeLog(<<t, "begin">>) EXCEPT ![t] = "started"]
    /\ UNCHANGED <<cliProc, cliLast, program, alertVars, supVars, envVars, svcVars,
                   taskVars>>

\* a created task's stop() returns
StopTaskEnds(t) ==
    /\ program = "cli"
    /\ serve.pc = "unwinding"
    /\ serve[t] = "started"
    /\ serve' = [ServeLog(<<t, "end">>) EXCEPT ![t] = "done"]
    /\ UNCHANGED <<cliProc, cliLast, program, alertVars, supVars, envVars, svcVars,
                   taskVars>>

\* finally: await supervisor.stop() returns; the pending SystemExit (or the
\* cancellation) leaves the coroutine and asyncio.run cancels what is left
FinallyEnds ==
    /\ program = "cli"
    /\ serve.pc \in {"unwinding", "cancelling"}
    /\ serve.fin = "started"
    /\ serve' = [ServeLog(<<"fin", "end">>) EXCEPT
                     !.fin = "done", !.pc = "cancelling",
                     !.sup = CancelPending(@), !.pm = CancelPending(@)]
    /\ UNCHANGED <<cliProc, cliLast, program, alertVars, supVars, envVars, svcVars,
                   taskVars>>

\* a task cancelled inside its stop(): the CancelledError ends it, or the
\* stop() completes while handling it
CancelStarted(t, completes) ==
    /\ program = "cli"
    /\ serve.pc = "cancelling"
    /\ serve.fin # "started"
    /\ serve[t] = "started"
    /\ serve' = IF completes
                THEN [ServeLog(<<t, "end">>) EXCEPT ![t] = "done"]
                ELSE [serve EXCEPT ![t] = "cancelled"]
    /\ UNCHANGED <<cliProc, cliLast, program, alertVars, supVars, envVars, svcVars,
                   taskVars>>

\* SystemExit leaves asyncio.run; neither except clause of _serve_http
\* catches it and the process exits with status 0
ServeExit ==
    /\ program = "cli"
    /\ serve.pc = "cancelling"
    /\ serve.fin # "started"
    /\ \A t \in StopTasks : serve[t] \notin {"pending", "started"}
    /\ serve' = [ServeLog(<<"exit", "0">>) EXCEPT !.pc = "exited"]
    /\ UNCHANGED <<cliProc, cliLast, program, alertVars, supVars, envVars, svcVars,
                   taskVars>>

\* without monitoring no handler is installed: SIGINT raises
\* KeyboardInterrupt out of asyncio.run(main()) and the except clause runs
\* asyncio.run(process_manager.stop())
KeyboardInterrupt ==
    /\ program = "cli"
    /\ ~serve.monitoring
    /\ serve.pc = "serving"
    /\ serve' = [ServeLog(<<"pm", "begin">>) EXCEPT
                     !.pc = "interrupted", !.pm = "started"]
    /\ UNCHANGED <<cliProc, cliLast, program, alertVars, supVars, envVars, svcVars,
                   taskVars>>

InterruptStopEnds ==
    /\ program = "cli"
    /\ serve.pc = "interrupted"
    /\ serve' = [serve EXCEPT
                     !.pc = "exited", !.pm = "done",
                     !.log = @ \o << <<"pm", "end">>, <<"exit", "0">> >>]
    /\ UNCHANGED <<cliProc, cliLast, program, alertVars, supVars, envVars, svcVars,
                   taskVars>>

ServeNext ==
    \/ \E m \in BOOLEAN : ServeHttp(m)
    \/ ServeStarted
    \/ \E sig \in Signums, site \in HandlerSites : SignalHandler(sig, site)
    \/ \E t \in StopTasks : StopTaskRuns(t)
    \/ \E t \in StopTasks : StopTaskEnds(t)
    \/ FinallyEnds
    \/ \E t \in StopTasks, c \in BOOLEAN : CancelStarted(t, c)
    \/ ServeExit
    \/ KeyboardInterrupt
    \/ InterruptStopEnds

ServeInit ==
    /\ AlertInit
    /\ program = "cli"
    /\ SupInit
    /\ CliIdle
    /\ EnvIdle
    /\ SvcIdle
    /\ TasksIdle

SpecServe == ServeInit /\ [][ServeNext]_vars

\* the places of the events of a kind in the shutdown log
Places(event) == {i \in DOMAIN serve.log : serve.log[i] = event}

SignalledExit ==
    /\ serve.pc = "exited"
    /\ \E sig \in Signums : Places(<<"signal", sig>>) # {}

\* C33: in monitored HTTP mode, when the process has exited after a shutdown
\* signal, the stop of the worker process has run to completion, a stop of
\* the monitoring supervisor completed before the worker's stop began, and
\* neither stop was left as a task that was created and never awaited.
C33_OrderlyShutdown ==
    SignalledExit
    => /\ serve.pm = "done"
       /\ \E e \in Places(<<"fin", "end">>) \cup Places(<<"sup", "end">>) :
              \A b \in Places(<<"pm", "begin">>) : e < b
       /\ serve.sup # "cancelled"

\* the process exited after SIGTERM and the worker's stop never began
C33_Witness ==
    /\ SignalledExit
    /\ Places(<<"signal", "SIGTERM">>) # {}
    /\ serve.pm = "cancelled"
    /\ Places(<<"pm", "begin">>) = {}
    /\ serve.fin = "done"


-----------------------------------------------------------------------------
\* server.py, the tool operations that reach the canvas server.

\* the tools whose request goes through sync_to_canvas
SyncTools ==
    {"create_element", "update_element", "delete_element",
     "batch_create_elements", "lock_elements", "unlock_elements"}

\* the tools that build their own httpx client
DirectTools == {"query_elements", "get_resource"}

\* len(request.element_ids) of lock_elements / unlock_elements
MaxIds == 2

\* what the model keeps of a tool's argument: the number of elements of
\* lock / unlock, the resource of get_resource
ToolArgs(tool) ==
    CASE tool \in {"lock_elements", "unlock_elements"} ->
             {<<"ids", n>> : n \in 0..MaxIds}
      [] tool = "get_resource" ->
             {<<r, 1>> : r \in {"scene", "library", "theme", "elements"}}
      [] OTHER -> {<<"request", 1>>}

\* the tool sends a request without calling sync_to_canvas
SendsDirectly(tool, arg) ==
    \/ tool = "query_elements"
    \/ tool = "get_resource" /\ arg[1] \in {"library", "elements"}

\* mutant: every tool that sends a request goes through the readiness query
ToolEntry_AlwaysEnsure(tool, arg, sync) ==
    IF tool \in SyncTools /\ (~sync \/ arg[2] = 0) THEN ToolIdle
    ELSE IF tool \in SyncTools \/ SendsDirectly(tool, arg)
    THEN [pc |-> "ensure", tool |-> tool, left |-> arg[2], gate |-> None]
    ELSE ToolIdle

\* a tool up to its first await: sync_to_canvas returns None at once when
\* ENABLE_CANVAS_SYNC is off and otherwise awaits
\* ensure_canvas_server_running; query_elements and get_resource (library,
\* elements) open a client and send; get_resource (scene, theme) answers
\* from constants
ToolEntry(tool, arg, sync) ==
    IF tool \in SyncTools
    THEN IF ~sync \/ arg[2] = 0 THEN ToolIdle
         ELSE [pc |-> "ensure", tool |-> tool, left |-> arg[2],
               gate |-> None]
    ELSE IF SendsDirectly(tool, arg)
    THEN [pc |-> "send", tool |-> tool, left |-> 1, gate |-> None]
    ELSE ToolIdle

\* the next call of sync_to_canvas in the tool's loop, or the tool's return
NextSync(op) ==
    IF op.left > 1 THEN [op EXCEPT !.pc = "ensure", !.left = @ - 1]
    ELSE ToolIdle

\* sync_to_canvas after ensure_canvas_server_running has returned or gone
\* to sleep: on False it returns None without a request
AfterEnsure(op, call) ==
    IF call.pc = "poll" THEN op
    ELSE IF call.ret = Some(TRUE)
    THEN [op EXCEPT !.pc = "send", !.gate = Some(TRUE)]
    ELSE NextSync([op EXCEPT !.gate = Some(FALSE)])

\* a tool is called
ToolCall(c, tool, arg) ==
    /\ program = "server"
    /\ toolOps[c].pc = "idle"
    /\ toolOps' = [toolOps EXCEPT ![c] = ToolEntry(tool, arg, syncEnabled)]
    /\ UNCHANGED <<syncEnabled, request, export, supVars, program,
                   alertVars, cliVars, envVars, taskVars>>

\* sync_to_canvas: await ensure_canvas_server_running(), up to its return
\* or its first sleep
ToolEnsureBegin(c, healthy, launched) ==
    /\ program = "server"
    /\ toolOps[c].pc = "ensure"
    /\ ensure[c].pc = "idle"
    /\ (autoStart /\ ~healthy /\ launched) => Len(procs) < MaxStarts
    /\ LET r == EnsureBeginResult(SupState, autoStart, healthy, launched)
       IN  /\ SetSupState(r.sup)
           /\ ensure' = [ensure EXCEPT ![c] = r.call]
           /\ supLast' = SupOp("ensure_begin", c, Some(healthy), r.started)
           /\ toolOps' = [toolOps EXCEPT ![c] = AfterEnsure(@, r.call)]
    /\ UNCHANGED <<syncEnabled, request, export, osName, autoStart, program,
                   alertVars, cliVars, envVars, taskVars>>

\* the readiness query's next round
ToolEnsurePoll(c, healthy) ==
    /\ program = "server"
    /\ toolOps[c].pc = "ensure"
    /\ ensure[c].pc = "poll"
    /\ LET r == EnsurePollResult(SupState, osName, ensure[c], healthy)
       IN  /\ SetSupState(r.sup)
           /\ ensure' = [ensure EXCEPT ![c] = r.call]
           /\ toolOps' = [toolOps EXCEPT ![c] = AfterEnsure(@, r.call)]
    /\ supLast' = SupOp("ensure_poll", c, Some(healthy), FALSE)
    /\ UNCHANGED <<syncEnabled, request, export, osName, autoStart, program,
                   alertVars, cliVars, envVars, taskVars>>

\* the tool's client sends its request (client.post / put / delete / get)
ToolSend(c) ==
    /\ program = "server"
    /\ toolOps[c].pc = "send"
    /\ request' = Some([caller |-> c, tool |-> toolOps[c].tool,
                        gate |-> toolOps[c].gate,
                        handle |-> canvas_process_pid])
    /\ toolOps' = [toolOps EXCEPT ![c] = NextSync(@)]
    /\ UNCHANGED <<syncEnabled, export, supVars, program, alertVars,
                   cliVars, envVars, taskVars>>

ToolsNext ==
    \/ \E c \in Callers, tool \in SyncTools \cup DirectTools :
           \E arg \in ToolArgs(tool) : ToolCall(c, tool, arg)
    \/ \E c \in Callers, h \in BOOLEAN, l \in BOOLEAN :
           ToolEnsureBegin(c, h, l)
    \/ \E c \in Callers, h \in BOOLEAN : ToolEnsurePoll(c, h)
    \/ \E c \in Callers : ToolSend(c)

ToolsInit ==
    /\ AlertInit
    /\ program = "server"
    /\ SupInit
    /\ CliIdle
    /\ EnvIdle
    /\ syncEnabled \in BOOLEAN
    /\ toolOps = [c \in Callers |-> ToolIdle]
    /\ request = None
    /\ export = ExportService(TRUE)
    /\ TasksIdle

SpecTools == ToolsInit /\ [][ToolsNext]_vars

\* C34: every request a tool operation sends to the canvas server is sent
\* after ensure_canvas_server_running returned true inside that operation;
\* an operation whose readiness query returned false sends nothing.
C34_RequestsAreGated ==
    request # None => request[1].gate = Some(TRUE)

\* query_elements has sent its request although no readiness query ran and
\* no worker was ever launched
C34_Witness ==
    /\ request # None
    /\ request[1].tool = "query_elements"
    /\ request[1].gate = None
    /\ procs = <<>>
    /\ ensure[request[1].caller].ret = None


-----------------------------------------------------------------------------
\* server.py: several tool operations inside ensure_canvas_server_running
\* at the same time.  Each await (the probe, the 1 s sleep) lets the other
\* caller run.

ConcurrentCallers == {"t1", "t2"}

ConcurrentInit ==
    /\ AlertInit
    /\ program = "server"
    /\ osName \in {"posix", "nt"}
    /\ autoStart = TRUE
    /\ canvas_process = None
    /\ canvas_process_pid = None
    /\ procs = <<>>
    /\ signals = <<>>
    /\ ensure = [c \in ConcurrentCallers |-> EnsureIdle(None)]
    /\ supLast = SupOp("init", "none", None, FALSE)
    /\ CliIdle
    /\ EnvIdle
    /\ SvcIdle
    /\ TasksIdle

ConcurrentNext ==
    \/ \E c \in ConcurrentCallers, h \in BOOLEAN, l \in BOOLEAN :
           EnsureBegin(c, h, l)
    \/ \E c \in ConcurrentCallers, h \in BOOLEAN : EnsurePoll(c, h)
    \/ Stop
    \/ \E pid \in 1..MaxStarts : ProcExits(pid)

SpecConcurrent == ConcurrentInit /\ [][ConcurrentNext]_vars

\* a launched process that runs and was sent no signal
Unsignalled(pid) ==
    /\ procs[pid] = "running"
    /\ \A i \in DOMAIN signals : signals[i][1] # pid

\* C35: under concurrent ensure_canvas_server_running calls and
\* stop_canvas_server, every launched worker that still runs and was sent
\* no termination signal is the one the module handle names, so at most one
\* such worker exists.
C35_NoOrphanedWorker ==
    \A pid \in DOMAIN procs :
        Unsignalled(pid) => canvas_process_pid = Some(pid)

\* both callers found the worker unhealthy and launched one; the first
\* caller's poll loop ran out and its stop signalled the second caller's
\* worker, while the first worker runs on with no handle naming it
C35_Witness ==
    /\ Len(procs) = 2
    /\ Unsignalled(1)
    /\ signals = << <<2, "SIGTERM">> >>
    /\ canvas_process_pid = None
    /\ supLast.op = "ensure_poll"
    /\ supLast.caller = "t1"
    /\ ensure["t1"].ret = Some(FALSE)
    /\ ensure["t2"].pc = "poll"


\* the alerts of the history that have the given source
InHistory(source) ==
    Cardinality({i \in DOMAIN history : alerts[history[i]].source = source})

\* the per-rule counts add up to the rule-generated alerts of the history
CountsMatchHistory ==
    SumOver(counts, DOMAIN counts) = InHistory("canvas_monitoring")

\* C36: in every state the per-rule trigger counts add up to the number of
\* alerts of source canvas_monitoring in the history, and
\* get_alert_statistics reports these counts, a total_alerts_sent equal to
\* their sum plus the number of manual alerts in the history, and an
\* active_alerts equal to the size of the active index.
C36_StatisticsConsistent ==
    [][/\ CountsMatchHistory
       /\ CountsMatchHistory'
       /\ CallReader("get_alert_statistics", None)
              => LET s == last'.returned[1]
                     byType == s.alert_counts_by_type
                 IN  /\ SumOver(byType, DOMAIN byType)
                            = InHistory("canvas_monitoring")
                     /\ s.total_alerts_sent
                            = SumOver(byType, DOMAIN byType)
                                  + InHistory("manual")
                     /\ s.active_alerts = Cardinality(DOMAIN active)]_vars

\* get_alert_statistics has just reported two alerts, one of a rule, which
\* is active, and one manual
C36_Witness ==
    /\ last.op = "get_alert_statistics"
    /\ last.returned[1].total_alerts_sent = 2
    /\ last.returned[1].active_alerts = 1
    /\ InHistory("manual") = 1
    /\ InHistory("canvas_monitoring") = 1
    /\ SumOver(counts, DOMAIN counts) = 1


-----------------------------------------------------------------------------
\* Concurrent cycles with asyncio.Lock as it schedules: a coroutine that
\* finds the lock free and nobody waiting goes on without a suspension, and
\* the waiters are served in the order in which they arrived.

\* the snapshots of the cycles: three failed health checks (only
\* health_check_failing is true), and five (health_check_critical is true
\* too)
FifoSnapshots ==
    {Snapshot(3, CpuThreshold, "running"),
     Snapshot(5, CpuThreshold, "running")}

RECURSIVE FifoRun(_, _, _, _)
\* the cycle `c` has the lock for its rule c.i and runs until it is
\* suspended: in the dispatch of an alert it stored (it holds the lock), at
\* the lock for a later rule when `queue` is not empty (it waits), or never,
\* when the loop ends first
FifoRun(st, ruleSeq, c, queue) ==
    LET rule == ruleSeq[c.i]
        fires == EvaluateCondition(rule.condition, c.m[1])
        after == IF fires THEN TriggerStore(st, ruleSeq, rule, c.ts)
                 ELSE ResolveAlert(st, rule.name, c.ts)
        stored == Len(after.alerts) > Len(st.alerts)
        next == AfterRule(ruleSeq, c.i, c.m[1], c.ts)
    IN  IF stored
        THEN [st |-> after, holds |-> TRUE, waits |-> FALSE,
              task |-> [TaskSending(c.i, c.m[1], c.ts)
                           EXCEPT !.ref = Len(after.alerts)]]
        ELSE IF next.pc = "idle"
        THEN [st |-> after, holds |-> FALSE, waits |-> FALSE, task |-> next]
        ELSE IF queue # <<>>
        THEN [st |-> after, holds |-> FALSE, waits |-> TRUE, task |-> next]
        ELSE FifoRun(after, ruleSeq, next, queue)

\* the cycle `c` of task t arrives at `async with self._lock` (or has
\* ended), the queue being `queue` and the lock free or not
FifoArrive(st, t, c, free, queue) ==
    IF c.pc = "idle"
    THEN [st |-> st, task |-> c, lock |-> IF free THEN None ELSE lock,
          waiters |-> queue]
    ELSE IF free /\ queue = <<>>
    THEN LET r == FifoRun(st, rules, c, <<>>)
         IN  [st |-> r.st, task |-> r.task,
              lock |-> IF r.holds THEN Some(t) ELSE None,
              waiters |-> <<>>]
    ELSE [st |-> st, task |-> c, lock |-> IF free THEN None ELSE lock,
          waiters |-> Append(queue, t)]

FifoStep(t, r) ==
    /\ Len(r.st.alerts) <= MaxAlerts
    /\ SetAlertState(r.st)
    /\ tasks' = [tasks EXCEPT ![t] = r.task]
    /\ lock' = r.lock
    /\ waiters' = r.waiters
    /\ UNCHANGED <<rules, alertingEnabled, now, clockSteps, last, access>>
    /\ UNCHANGED <<program, supVars, cliVars, envVars, svcVars>>

\* check_conditions(metrics) is called: the clock is read and the loop runs
\* to its first suspension
FifoCycleBegin(t, metrics) ==
    /\ tasks[t].pc = "idle"
    /\ FifoStep(t, FifoArrive(AlertState, t,
                              IF ~alertingEnabled THEN TaskIdle
                              ELSE AfterRule(rules, 0, metrics, now),
                              lock = None, waiters))

\* the lock is free and its first waiter is resumed
FifoGrant ==
    /\ lock = None
    /\ waiters # <<>>
    /\ LET t == Head(waiters)
           r == FifoRun(AlertState, rules, tasks[t], Tail(waiters))
       IN  FifoStep(t, [st |-> r.st, task |-> r.task,
                        lock |-> IF r.holds THEN Some(t) ELSE None,
                        waiters |-> IF r.waits
                                    THEN Append(Tail(waiters), t)
                                    ELSE Tail(waiters)])

\* _send_alert returns, _trigger_alert leaves the lock and the loop runs on
FifoSendDone(t) ==
    /\ tasks[t].pc = "send"
    /\ LET c == tasks[t]
           sent == [AlertState EXCEPT
                        !.dispatchLog =
                            Append(@, SendAlert(c.ref,
                                                rules[c.i].channels))]
       IN  FifoStep(t, FifoArrive(sent, t,
                                  AfterRule(rules, c.i, c.m[1], c.ts),
                                  TRUE, waiters))

\* enable_rule(rule_name) / disable_rule(rule_name), called while cycles
\* run
FifoSetRule(rule_name, flag) ==
    /\ rules' = SetRuleEnabled(rules, rule_name, flag)
    /\ last' = Returned(IF flag THEN "enable_rule" ELSE "disable_rule",
                        RuleExists(rules, rule_name))
    /\ UNCHANGED <<active, history, counts, lastSent, alerts, dispatchLog,
                   alertingEnabled, now, clockSteps>>
    /\ UNCHANGED <<program, supVars, cliVars, envVars, svcVars, taskVars>>

FifoNext ==
    \/ \E d \in TaskDeltas : Advance(d)
    \/ \E t \in Tasks, m \in FifoSnapshots : FifoCycleBegin(t, m)
    \/ FifoGrant
    \/ \E t \in Tasks : FifoSendDone(t)
    \/ \E n \in RuleNameArgs, flag \in BOOLEAN : FifoSetRule(n, flag)

SpecFifo == TasksInit /\ [][FifoNext]_vars

\* resolved_at is set exactly on the resolved alerts, is not earlier than
\* the alert's timestamp, and no resolved alert is in the active index
ResolvedWellFormed ==
    \A ref \in DOMAIN alerts :
        /\ alerts[ref].resolved <=> alerts[ref].resolved_at # None
        /\ alerts[ref].resolved
               => /\ alerts[ref].resolved_at[1] >= alerts[ref].timestamp
                  /\ \A n \in DOMAIN active : active[n] # ref

InActive(ref) == \E n \in DOMAIN active : active[n] = ref
InActiveNext(ref) == \E n \in DOMAIN active' : active'[n] = ref
Listed(ref) == \E i \in DOMAIN history : history[i] = ref
ListedNext(ref) == \E i \in DOMAIN history' : history'[i] = ref

\* the step puts another alert in the place the alert has in the index
ReplacedNow(ref) ==
    /\ InActive(ref)
    /\ alerts[ref].labels.rule \in DOMAIN active'
    /\ active'[alerts[ref].labels.rule] # ref

\* C38: when a rule triggers again while its previous alert is active, the
\* previous alert leaves the active index without being marked resolved,
\* and an unresolved alert that is out of the index stays as it is, stays
\* out of the index and stays in the history through every later cycle,
\* whatever the cycle evaluates.
C38_ReplacedNeverResolved ==
    [][\A ref \in DOMAIN alerts :
           /\ ReplacedNow(ref)
                  => /\ ~alerts'[ref].resolved
                     /\ alerts'[ref].resolved_at = None
                     /\ ~InActiveNext(ref)
                     /\ Listed(ref) => ListedNext(ref)
           /\ (~InActive(ref) /\ ~alerts[ref].resolved)
                  => /\ alerts'[ref] = alerts[ref]
                     /\ ~InActiveNext(ref)
                     /\ (IsCycle /\ Listed(ref)) => ListedNext(ref)]_vars

\* the rule's first alert was replaced by a second one, the second one was
\* resolved when the condition cleared, and the first is in the history,
\* unresolved
C38_Witness ==
    /\ Len(alerts) = 2
    /\ alerts[1].source = "canvas_monitoring"
    /\ alerts[2].source = "canvas_monitoring"
    /\ alerts[1].labels.rule = alerts[2].labels.rule
    /\ ~alerts[1].resolved
    /\ alerts[1].resolved_at = None
    /\ alerts[2].resolved
    /\ DOMAIN active = {}
    /\ Listed(1)
    /\ last.op = "check_conditions"


\* C39: force_alert changes neither the active index nor any rule's count
\* or last-sent time nor the rules, so every rule is throttled after it
\* exactly as before; it adds one manual alert to the history; and no later
\* step resolves a manual alert or puts it in the active index.
C39_ForceAlertLeavesRules ==
    [][/\ last'.op = "force_alert"
              => /\ active' = active
                 /\ counts' = counts
                 /\ lastSent' = lastSent
                 /\ rules' = rules
                 /\ \A i \in DOMAIN rules :
                        ShouldThrottleAlert(lastSent', rules',
                                            rules[i].name, now')
                            = ShouldThrottleAlert(lastSent, rules,
                                                  rules[i].name, now)
                 /\ Len(alerts') = Len(alerts) + 1
                 /\ alerts'[Len(alerts')].source = "manual"
                 /\ history' = Append(history, Len(alerts'))
       /\ \A ref \in DOMAIN alerts :
              alerts[ref].source = "manual"
                  => /\ alerts'[ref] = alerts[ref]
                     /\ ~alerts'[ref].resolved
                     /\ ~InActiveNext(ref)]_vars

\* a manual alert was raised while a rule's alert was active, and the cycle
\* that resolved the rule's alert has left the manual alert unresolved
C39_Witness ==
    /\ Len(alerts) = 2
    /\ alerts[1].source = "canvas_monitoring"
    /\ alerts[1].resolved
    /\ alerts[2].source = "manual"
    /\ ~alerts[2].resolved
    /\ alerts[2].timestamp < alerts[1].resolved_at[1]
    /\ history = <<1, 2>>
    /\ DOMAIN lastSent = {alerts[1].labels.rule}
    /\ last.op = "check_conditions"


-----------------------------------------------------------------------------
\* export_service.py: the ExportService singleton.  Every await inside
\* _ensure_browser and close is a step that returns or raises; the lock is
\* held across them and an exception leaves the `async with` block, which
\* releases it.

\* the Playwright drivers started in a run
MaxLaunches == 2

ExportOps == {"export_svg", "export_png", "get_element_count", "close"}

\* the awaits of _ensure_browser, in order
InitSteps == <<"start", "launch", "new_page", "goto", "wait">>

ExportAt(c, pc) == [export EXCEPT !.pc[c] = pc]

\* the browsers of a driver end with it
StopDriverOf(browsers, d) ==
    [i \in DOMAIN browsers |->
        IF browsers[i].driver = d
        THEN [browsers[i] EXCEPT !.state = "closed"]
        ELSE browsers[i]]

\* mutant: a browser and driver left by a failed initialisation are closed
\* before new ones are started
EnsureStart_Cleans(ex) ==
    LET freed == IF ex.playwright # None
                 THEN [ex EXCEPT
                          !.drivers[ex.playwright[1]] = "stopped",
                          !.browsers = StopDriverOf(@, ex.playwright[1])]
                 ELSE ex
    IN  [freed EXCEPT !.drivers = Append(@, "running"),
                      !.playwright = Some(Len(ex.drivers) + 1),
                      !.browser = None, !.page = None]

\* self._playwright = await async_playwright().start()
EnsureStart(ex) ==
    [ex EXCEPT !.drivers = Append(@, "running"),
               !.playwright = Some(Len(ex.drivers) + 1)]

\* one await of _ensure_browser returns: what it assigns
EnsureStepDone(ex, step) ==
    CASE step = "start" -> EnsureStart(ex)
      [] step = "launch" ->
             [ex EXCEPT !.browsers =
                            Append(@, [driver |-> ex.playwright[1],
                                       state |-> "open"]),
                        !.browser = Some(Len(ex.browsers) + 1)]
      [] step = "new_page" -> [ex EXCEPT !.page = ex.browser]
      [] step = "goto" -> ex
      [] step = "wait" -> [ex EXCEPT !.initialized = TRUE]

\* the step after `step`, "use" after the last (the caller goes on to
\* self._page.evaluate)
StepAfter(step) ==
    LET i == CHOOSE j \in DOMAIN InitSteps : InitSteps[j] = step
    IN  IF i < Len(InitSteps) THEN InitSteps[i + 1] ELSE "use"

\* close() once `if self._browser` is done: the driver is stopped next, or
\* there is none and the flag is cleared
CloseAfterBrowser(ex, c) ==
    IF ex.playwright # None THEN [ex EXCEPT !.pc[c] = "stop_driver"]
    ELSE [ex EXCEPT !.initialized = FALSE, !.lock = None, !.pc[c] = "idle"]

ExportFrame ==
    UNCHANGED <<syncEnabled, toolOps, request, alertVars, program, supVars,
                cliVars, envVars, taskVars>>

\* export_svg / export_png / get_element_count / close is called
ExportCall(c, op) ==
    /\ program = "server"
    /\ export.pc[c] = "idle"
    /\ export' = IF op = "close" THEN ExportAt(c, "close")
                 ELSE IF ~export.available THEN export
                 ELSE ExportAt(c, "ensure")
    /\ ExportFrame

\* _ensure_browser enters the lock: it returns when the flag is set and
\* starts the driver otherwise
EnsureAcquire(c) ==
    /\ program = "server"
    /\ export.pc[c] = "ensure"
    /\ export.lock = None
    /\ export' = IF export.initialized THEN ExportAt(c, "use")
                 ELSE [export EXCEPT !.lock = Some(c), !.pc[c] = "start"]
    /\ ExportFrame

\* an await of _ensure_browser returns, or raises
EnsureStep(c, ok) ==
    /\ program = "server"
    /\ export.lock = Some(c)
    /\ \E i \in DOMAIN InitSteps : InitSteps[i] = export.pc[c]
    /\ (ok /\ export.pc[c] = "start") => Len(export.drivers) < MaxLaunches
    /\ export' =
           IF ok
           THEN LET done == EnsureStepDone(export, export.pc[c])
                    next == StepAfter(export.pc[c])
                IN  [done EXCEPT !.pc[c] = next,
                                 !.lock = IF next = "use" THEN None ELSE @]
           ELSE [export EXCEPT !.lock = None, !.pc[c] = "idle"]
    /\ ExportFrame

\* the caller's own work on self._page after _ensure_browser
ExportUse(c) ==
    /\ program = "server"
    /\ export.pc[c] = "use"
    /\ export' = ExportAt(c, "idle")
    /\ ExportFrame

\* close() enters the lock
CloseAcquire(c) ==
    /\ program = "server"
    /\ export.pc[c] = "close"
    /\ export.lock = None
    /\ export' = IF export.browser # None
                 THEN [export EXCEPT !.lock = Some(c),
                                     !.pc[c] = "close_browser"]
                 ELSE CloseAfterBrowser([export EXCEPT !.lock = Some(c)], c)
    /\ ExportFrame

\* await self._browser.close() returns, or raises
CloseBrowser(c, ok) ==
    /\ program = "server"
    /\ export.pc[c] = "close_browser"
    /\ export' =
           IF ok
           THEN CloseAfterBrowser(
                    [export EXCEPT !.browsers[export.browser[1]].state =
                                       "closed",
                                   !.browser = None, !.page = None], c)
           ELSE [export EXCEPT !.lock = None, !.pc[c] = "idle"]
    /\ ExportFrame

\* await self._playwright.stop() returns, or raises
StopDriver(c, ok) ==
    /\ program = "server"
    /\ export.pc[c] = "stop_driver"
    /\ export' =
           IF ok
           THEN [export EXCEPT
                     !.drivers[export.playwright[1]] = "stopped",
                     !.browsers = StopDriverOf(@, export.playwright[1]),
                     !.playwright = None, !.initialized = FALSE,
                     !.lock = None, !.pc[c] = "idle"]
           ELSE [export EXCEPT !.lock = None, !.pc[c] = "idle"]
    /\ ExportFrame

ExportNext ==
    \/ \E c \in ExportCallers, op \in ExportOps : ExportCall(c, op)
    \/ \E c \in ExportCallers : EnsureAcquire(c)
    \/ \E c \in ExportCallers, ok \in BOOLEAN : EnsureStep(c, ok)
    \/ \E c \in ExportCallers : ExportUse(c)
    \/ \E c \in ExportCallers : CloseAcquire(c)
    \/ \E c \in ExportCallers, ok \in BOOLEAN : CloseBrowser(c, ok)
    \/ \E c \in ExportCallers, ok \in BOOLEAN : StopDriver(c, ok)

ExportInit ==
    /\ AlertInit
    /\ program = "server"
    /\ osName = "posix"
    /\ autoStart = TRUE
    /\ SupIdle
    /\ CliIdle
    /\ EnvIdle
    /\ syncEnabled = TRUE
    /\ toolOps = [c \in Callers |-> ToolIdle]
    /\ request = None
    /\ export \in {ExportService(a) : a \in BOOLEAN}
    /\ TasksIdle

SpecExport == ExportInit /\ [][ExportNext]_vars

\* the browsers launched and not closed
LiveBrowsers ==
    {i \in DOMAIN export.browsers : export.browsers[i].state = "open"}

\* C40: at most one browser has been launched and not yet closed, whatever
\* the interleaving of export calls, get_element_count and close and
\* wherever an initialisation fails, and _initialized is true only while a
\* launched browser and its page are held.
C40_OneLiveBrowser ==
    /\ Cardinality(LiveBrowsers) <= 1
    /\ export.initialized
           => /\ export.browser # None
              /\ export.page # None
              /\ export.browser[1] \in LiveBrowsers

\* the page load of the first initialisation raised, and the next call has
\* launched a second browser beside the first, which nothing names any more
C40_Witness ==
    /\ LiveBrowsers = {1, 2}
    /\ export.browser = Some(2)
    /\ export.playwright = Some(2)
    /\ export.drivers = <<"running", "running">>
    /\ export.initialized
    /\ export.lock = None

=============================================================================
